---- MODULE Spec2Model ----
(***************************************************************************)
(* Model of the version-management runtime of DevEnvProbe                  *)
(* (src-tauri/src/version): the shared runtime state (TTL check cache and  *)
(* per-image update-lock table, state.rs) and the version checker          *)
(* (checker.rs) with its providers' timing behaviour.                      *)
(*                                                                         *)
(* Time is the system clock in milliseconds (SystemTime / Duration).  The  *)
(* clock is modelled as non-decreasing; is_expired's branch for a clock    *)
(* that moved back (unwrap_or(true)) is kept in the operators.             *)
(***************************************************************************)
EXTENDS Integers, Sequences, FiniteSets, TLC

VARIABLES
    now,            \* SystemTime::now(), in ms
    update_locks,   \* HashMap<String, UpdateLock>: a function on the keys present
    locks_guard,    \* holder of the Mutex around update_locks (0: free)
    pc,             \* per caller: position inside try_lock_update
    arg,            \* per caller: (image_key, operation_id) of the call in progress
    lock_result,    \* the value returned by the most recent try_lock_update
    grants,         \* history: per key, the successful try_lock_update calls not yet
                    \* followed by unlock_update of that key
    phase,          \* per caller: position in the acquire / update / release discipline
    overran,        \* history: per key, some caller kept its lock longer than the
                    \* stale-lock timeout between acquire and release
    check_cache,    \* HashMap<String, VersionCheckCache>: a function on the keys present
    got,            \* the value returned by the most recent get_cached_check
    chk,            \* the check_image_version call in progress (its future's state)
    outcome,        \* the value returned by the most recent check_image_version
    nchecks,        \* number of check_image_version calls made
    sel,            \* the most recent select_recommended call: its results and its value
    upd,            \* the update_image_and_restart call in progress and its return value
    docker,         \* the containers of the docker host: a function name -> container
    hc,             \* the wait_until_healthy call in progress and its return value
    tg,             \* the most recent DockerHubProvider tag selection: its input and value
    pr,             \* the execute_process_with_timeout call in progress and its return value
    unlocked,       \* history: the most recent unlock_update call: its caller, its key
                    \* and the operation id of the lock it removed ("" when none)
    api             \* the CustomApiProvider fetch_latest call in progress and its value

vars == <<now, update_locks, locks_guard, pc, arg, lock_result, grants, phase, overran,
          check_cache, got, chk, outcome, nchecks, sel, upd, docker, hc, tg, pr, unlocked,
          api>>

lockVars == <<update_locks, locks_guard, pc, arg, lock_result, grants, phase, overran>>
cacheVars == <<check_cache, got>>
checkVars == <<chk, outcome, nchecks>>
updateVars == <<upd, docker>>
toolVars == <<tg, pr, api>>
runVars == <<sel, updateVars, hc, toolVars>>
extVars == <<runVars, unlocked>>

discipline == <<phase, overran>>

-----------------------------------------------------------------------------
(* Bounds of the model *)

NumCallers == 2
MaxLockClockSec == 902

Callers == 1..NumCallers

(* Program constants *)

LOCK_TIMEOUT_SECS == 900

-----------------------------------------------------------------------------
(* Image identity *)

Repositories == {"nginx"}
Tags == {"1.0.0", "1.1.0"}

build_image_key(repository, tag) == repository \o ":" \o tag

ImageKeys == {build_image_key(r, t) : r \in Repositories, t \in Tags}

OperationId(c) == "op-" \o ToString(c)

Secs(n) == n * 1000

-----------------------------------------------------------------------------
(* state.rs: UpdateLock and the lock table *)

\* SystemTime::now().duration_since(at).map(|e| e > timeout).unwrap_or(true)
IsExpired(at, timeout, clock) ==
    IF clock >= at THEN clock - at > timeout ELSE TRUE

\* mutation: a lock table whose locks go stale after half the timeout
MutantLockIsExpired(lock, clock) == IsExpired(lock.locked_at, Secs(LOCK_TIMEOUT_SECS) \div 2, clock)

LockIsExpired(lock, clock) == IsExpired(lock.locked_at, Secs(LOCK_TIMEOUT_SECS), clock)

MapInsert(m, k, v) == [x \in (DOMAIN m) \cup {k} |-> IF x = k THEN v ELSE m[x]]

\* mutation: remove() empties the table
MutantMapRemove(m, k) == [x \in {} |-> 0]

MapRemove(m, k) == [x \in (DOMAIN m) \ {k} |-> m[x]]

EmptyMap == [x \in {} |-> 0]

\* mutation: try_lock_update does not sweep
MutantSweepExpired(locks, clock) == locks

\* the expired_keys sweep at the head of try_lock_update
SweepExpired(locks, clock) ==
    [k \in {x \in DOMAIN locks : ~LockIsExpired(locks[x], clock)} |-> locks[k]]

\* mutation: the already-locked check never finds a lock
MutantHasLiveLock(locks, key, clock) == FALSE

\* "if let Some(existing_lock) = locks.get(&image_key) { if !existing_lock.is_expired(..)"
HasLiveLock(locks, key, clock) ==
    key \in DOMAIN locks /\ ~LockIsExpired(locks[key], clock)

\* mutation: no mutex around the lock table
MutantGuardFree == TRUE

\* self.update_locks.lock(): the mutex is free
GuardFree == locks_guard = 0

NoArg == [image_key |-> "", operation_id |-> ""]
NoUnlock == [caller |-> 0, image_key |-> "", removed |-> ""]
NoResult == [caller |-> 0, image_key |-> "", ok |-> TRUE, holder |-> ""]

TryLockBegin(c, key, op) ==
    /\ pc[c] = "idle"
    /\ GuardFree
    /\ locks_guard' = c
    /\ pc' = [pc EXCEPT ![c] = "sweep"]
    /\ arg' = [arg EXCEPT ![c] = [image_key |-> key, operation_id |-> op]]
    /\ UNCHANGED <<now, update_locks, lock_result, grants, cacheVars, checkVars, extVars>>

TryLockSweep(c) ==
    /\ pc[c] = "sweep"
    /\ update_locks' = SweepExpired(update_locks, now)
    /\ pc' = [pc EXCEPT ![c] = "check"]
    /\ UNCHANGED <<now, locks_guard, arg, lock_result, grants, cacheVars, checkVars, extVars>>

\* the conflict branch returns Err and drops the guard
TryLockConflict(c) ==
    /\ pc[c] = "check"
    /\ HasLiveLock(update_locks, arg[c].image_key, now)
    /\ lock_result' = [caller |-> c, image_key |-> arg[c].image_key, ok |-> FALSE,
                       holder |-> update_locks[arg[c].image_key].operation_id]
    /\ pc' = [pc EXCEPT ![c] = "idle"]
    /\ arg' = [arg EXCEPT ![c] = NoArg]
    /\ locks_guard' = 0
    /\ UNCHANGED <<now, update_locks, grants, cacheVars, checkVars, extVars>>

TryLockPass(c) ==
    /\ pc[c] = "check"
    /\ ~HasLiveLock(update_locks, arg[c].image_key, now)
    /\ pc' = [pc EXCEPT ![c] = "insert"]
    /\ UNCHANGED <<now, update_locks, locks_guard, arg, lock_result, grants, cacheVars, checkVars, extVars>>

TryLockInsert(c) ==
    /\ pc[c] = "insert"
    /\ update_locks' = MapInsert(update_locks, arg[c].image_key,
                                 [operation_id |-> arg[c].operation_id,
                                  image_key |-> arg[c].image_key,
                                  locked_at |-> now])
    /\ lock_result' = [caller |-> c, image_key |-> arg[c].image_key, ok |-> TRUE,
                       holder |-> ""]
    /\ pc' = [pc EXCEPT ![c] = "idle"]
    /\ arg' = [arg EXCEPT ![c] = NoArg]
    /\ locks_guard' = 0
    /\ grants' = [grants EXCEPT ![arg[c].image_key] =
                     {g \in @ : ~IsExpired(g.at, Secs(LOCK_TIMEOUT_SECS), now)}
                     \cup {[caller |-> c, operation_id |-> arg[c].operation_id, at |-> now]}]
    /\ UNCHANGED <<now, cacheVars, checkVars, extVars>>

UnlockUpdate(c, key) ==
    /\ pc[c] = "idle"
    /\ GuardFree
    /\ update_locks' = MapRemove(update_locks, key)
    /\ grants' = [grants EXCEPT ![key] = {}]
    /\ unlocked' = [caller |-> c, image_key |-> key,
                    removed |-> IF key \in DOMAIN update_locks
                                THEN update_locks[key].operation_id ELSE ""]
    /\ UNCHANGED <<now, locks_guard, pc, arg, lock_result, cacheVars, checkVars, runVars>>

LockTickSteps == {Secs(450), Secs(451)}

LockTick ==
    \E d \in LockTickSteps :
        /\ now + d <= Secs(MaxLockClockSec)
        /\ now' = now + d
        /\ UNCHANGED <<update_locks, locks_guard, pc, arg, lock_result, grants, cacheVars, checkVars, extVars>>

-----------------------------------------------------------------------------
(* state.rs: VersionCheckCache and the check cache.  Option<T> is the       *)
(* sequence << >> (None) or <<x>> (Some(x)).                                *)

CHECK_CACHE_TTL_SECONDS == 30

\* mutation: a cache that reads a zero TTL as "never expires"
MutantCacheIsExpired(entry, ttl, clock) == ttl > 0 /\ IsExpired(entry.cached_at, ttl, clock)

CacheIsExpired(entry, ttl, clock) == IsExpired(entry.cached_at, ttl, clock)

\* mutation: an entry whose age equals the TTL is already absent
MutantGetCached(cache, key, ttl, clock) ==
    IF key \in DOMAIN cache /\ clock - cache[key].cached_at < ttl
    THEN <<cache[key].response>>
    ELSE << >>

\* get_cached_check: cache.get(image_key).and_then(|e| if e.is_expired(ttl) {None} else {Some(..)})
GetCached(cache, key, ttl, clock) ==
    IF key \in DOMAIN cache /\ ~CacheIsExpired(cache[key], ttl, clock)
    THEN <<cache[key].response>>
    ELSE << >>

\* mutation: cache_check stores nothing
MutantPutCache(cache, key, response, clock) == cache

\* cache_check: cache.insert(image_key, VersionCheckCache { response, cached_at: now })
PutCache(cache, key, response, clock) ==
    MapInsert(cache, key, [response |-> response, cached_at |-> clock])

NoGot == [image_key |-> "", ttl |-> 0, value |-> << >>, flip |-> FALSE]

get_cached_check(key, ttl) ==
    /\ got' = [image_key |-> key, ttl |-> ttl,
               value |-> GetCached(check_cache, key, ttl, now), flip |-> ~got.flip]
    /\ UNCHANGED <<now, check_cache, lockVars, checkVars, extVars>>

cache_check(key, response) ==
    /\ check_cache' = PutCache(check_cache, key, response, now)
    /\ UNCHANGED <<now, got, lockVars, checkVars, extVars>>

-----------------------------------------------------------------------------
(* errors.rs *)

VersionErrorKinds ==
    {"InvalidInput", "SourceTimeout", "SourceUnavailable", "NoValidSourceResult",
     "UpdateConflict", "StepFailed", "RollbackFailed", "Io", "Http", "Parse"}

\* mutation: a Parse error is reported as invalid input
MutantCode(err) ==
    IF err \in {"Io", "Http"} THEN "SourceUnavailable"
    ELSE IF err = "Parse" THEN "InvalidInput" ELSE err

\* VersionError::code
code(err) ==
    IF err \in {"Io", "Http", "Parse"} THEN "SourceUnavailable" ELSE err

\* VersionErrorCode::as_str
as_str(c) ==
    CASE c = "InvalidInput" -> "VERSION_INVALID_INPUT"
      [] c = "SourceTimeout" -> "VERSION_SOURCE_TIMEOUT"
      [] c = "SourceUnavailable" -> "VERSION_SOURCE_UNAVAILABLE"
      [] c = "NoValidSourceResult" -> "VERSION_NO_VALID_SOURCE_RESULT"
      [] c = "UpdateConflict" -> "VERSION_UPDATE_CONFLICT"
      [] c = "StepFailed" -> "VERSION_STEP_FAILED"
      [] c = "RollbackFailed" -> "VERSION_ROLLBACK_FAILED"

-----------------------------------------------------------------------------
(* checker.rs and the providers' timing.                                    *)
(*                                                                          *)
(* A provider run is what the outside world does for one fetch_latest:      *)
(* after `latency` ms it yields `outcome` ("ok" or a VersionError kind).    *)
(* The registry, release and custom-API providers await a reqwest request   *)
(* built with a client timeout of timeout_ms(); the local-repository        *)
(* provider runs its git commands with std::process::Command::output()      *)
(* inside fetch_latest, with no await: its whole latency passes inside one  *)
(* poll of its future, during which nothing else of the check is polled.    *)

DEFAULT_SOURCE_TIMEOUT_MS == 8000
DEFAULT_OVERALL_TIMEOUT_MS == 15000
PROVIDER_TIMEOUT_MS == 8000

SourceKinds == {"DockerHub", "GithubRelease", "LocalGit", "CustomApi"}

\* fetch_latest of the kind never awaits (git_checker.rs)
Blocking(kind) == kind = "LocalGit"

\* fetch_latest returns before its first await: the custom-API validation
ImmediateFailure(kind, run) == kind = "CustomApi" /\ run.outcome = "InvalidInput"

\* the version the source reports
RemoteVersion(kind) ==
    IF kind \in {"LocalGit", "GithubRelease"} THEN "1.1.0" ELSE "1.0.0"

Candidate(kind) == [source |-> kind, version |-> RemoteVersion(kind)]

\* check_single_source's three match arms
OkResult(kind, elapsed) ==
    [source |-> kind, ok |-> TRUE, error_code |-> << >>, error_message |-> << >>,
     latest |-> <<Candidate(kind)>>, elapsed_ms |-> elapsed]

\* mutation: a failed result carries the candidate slot filled and no error code
MutantErrResult(kind, err, elapsed) ==
    [source |-> kind, ok |-> FALSE, error_code |-> << >>,
     error_message |-> <<err>>, latest |-> <<[source |-> kind, version |-> ""]>>,
     elapsed_ms |-> elapsed]

ErrResult(kind, err, elapsed) ==
    [source |-> kind, ok |-> FALSE, error_code |-> <<as_str(code(err))>>,
     error_message |-> <<err>>, latest |-> << >>, elapsed_ms |-> elapsed]

TimeoutResult(kind, elapsed) ==
    [source |-> kind, ok |-> FALSE, error_code |-> <<as_str("SourceTimeout")>>,
     error_message |-> <<"Source check timeout">>, latest |-> << >>, elapsed_ms |-> elapsed]

FetchResult(kind, run, elapsed) ==
    IF run.outcome = "ok" THEN OkResult(kind, elapsed) ELSE ErrResult(kind, run.outcome, elapsed)

NewTask(kind, run) ==
    [source |-> kind, run |-> run, st |-> "new", started_at |-> 0, result |-> << >>]

Done(task, result) == [task EXCEPT !.st = "done", !.result = <<result>>]

\* One poll of a check_single_source future at clock t: the task after the
\* poll and the clock when the poll returns.  tokio::time::timeout polls the
\* provider future first and its own timer after it.
PollTask(task, t, source_timeout) ==
    LET kind == task.source
        started == IF task.st = "new" THEN t ELSE task.started_at
        waited == t - started
    IN  IF task.st = "done" THEN [task |-> task, t |-> t]
        ELSE IF Blocking(kind)
        THEN [task |-> Done([task EXCEPT !.started_at = started],
                            FetchResult(kind, task.run, task.run.latency)),
              t |-> t + task.run.latency]
        ELSE IF task.st = "new" /\ ImmediateFailure(kind, task.run)
        THEN [task |-> Done([task EXCEPT !.started_at = started],
                            FetchResult(kind, task.run, 0)),
              t |-> t]
        ELSE IF task.st = "new"
        THEN [task |-> [task EXCEPT !.st = "pending", !.started_at = started], t |-> t]
        ELSE IF waited >= PROVIDER_TIMEOUT_MS
        THEN [task |-> Done(task, ErrResult(kind, "SourceTimeout", waited)), t |-> t]
        ELSE IF waited >= task.run.latency
        THEN [task |-> Done(task, FetchResult(kind, task.run, waited)), t |-> t]
        ELSE IF waited >= source_timeout
        THEN [task |-> Done(task, TimeoutResult(kind, waited)), t |-> t]
        ELSE [task |-> task, t |-> t]

\* One poll of join_all: the tasks that are not done are polled in order.
RECURSIVE PollFrom(_, _, _, _)
PollFrom(tasks, i, t, source_timeout) ==
    IF i > Len(tasks) THEN [tasks |-> tasks, t |-> t]
    ELSE LET r == PollTask(tasks[i], t, source_timeout)
         IN  PollFrom([tasks EXCEPT ![i] = r.task], i + 1, r.t, source_timeout)

PollAll(tasks, t, source_timeout) == PollFrom(tasks, 1, t, source_timeout)

AllDone(tasks) == \A i \in 1..Len(tasks) : tasks[i].st = "done"

Results(tasks) == [i \in 1..Len(tasks) |-> tasks[i].result[1]]

Min(S) == CHOOSE x \in S : \A y \in S : x <= y

\* the next instant at which the parked check is woken: a response, a reqwest
\* timeout, a per-source timer or the overall timer
NextWake(tasks, source_timeout, deadline) ==
    Min({deadline} \cup
        UNION {{tasks[i].started_at + tasks[i].run.latency,
                tasks[i].started_at + PROVIDER_TIMEOUT_MS,
                tasks[i].started_at + source_timeout} :
               i \in {j \in 1..Len(tasks) : tasks[j].st = "pending"}})

\* mutation: registry tags ranked above the local repository
MutantPriorityOrder == <<"DockerHub", "LocalGit", "GithubRelease", "CustomApi">>

\* select_recommended
PriorityOrder == <<"LocalGit", "GithubRelease", "DockerHub", "CustomApi">>

RECURSIVE SelectFrom(_, _)
SelectFrom(results, p) ==
    IF p > Len(PriorityOrder) THEN << >>
    ELSE LET hits == {i \in 1..Len(results) :
                          results[i].ok /\ results[i].source = PriorityOrder[p]}
         IN  IF hits # {} /\ results[Min(hits)].latest # << >>
             THEN results[Min(hits)].latest
             ELSE SelectFrom(results, p + 1)

\* mutation: the candidate of the last ok result of the list, whatever its kind
MutantSelectRecommended(results) ==
    LET ok == {i \in 1..Len(results) : results[i].ok}
    IN  IF ok = {} THEN << >>
        ELSE results[CHOOSE i \in ok : \A j \in ok : j <= i].latest

select_recommended(results) == SelectFrom(results, 1)

\* mutation: only an empty result list counts as a total failure
MutantAllFailed(results) == results = << >>

\* "if results.iter().all(|r| !r.ok)"
AllFailed(results) == \A i \in 1..Len(results) : ~results[i].ok

\* mutation: no validation of the source list
MutantSourcesEmpty(sources) == FALSE

\* "if request.sources.is_empty()"
SourcesEmpty(sources) == Len(sources) = 0

\* mutation: the checker never consults the cache
MutantCachedForCheck(key) == << >>

\* the cache lookup at the head of check_image_version
CachedForCheck(key) == GetCached(check_cache, key, Secs(CHECK_CACHE_TTL_SECONDS), now)

\* mutation: any recommendation counts as an update
MutantHasUpdate(recommended, tag) == recommended # << >>

\* "let has_update = if let Some(rec) = &recommended { rec.version != request.image.tag } else { false }"
HasUpdate(recommended, tag) ==
    IF recommended # << >> THEN recommended[1].version # tag ELSE FALSE

BuildResponse(key, tag, results, clock) ==
    LET recommended == select_recommended(results)
    IN  [image_key |-> key,
         current_version |-> <<tag>>,
         has_update |-> HasUpdate(recommended, tag),
         recommended |-> recommended,
         results |-> results,
         checked_at_ms |-> clock]

NoCheck == [st |-> "idle"]

NoOutcome ==
    [kind |-> "none", error |-> "", response |-> << >>, image_key |-> "",
     sources |-> << >>, runs |-> << >>, source_timeout |-> 0, overall_timeout |-> 0,
     called_at |-> 0, returned_at |-> 0, results |-> << >>]

\* a request: image, sources, timeout_ms, overall_timeout_ms; with the provider
\* runs the outside world will give its sources
Returned(kind, error, response, key, sources, runs, st, ot, called, results, clock) ==
    [kind |-> kind, error |-> error, response |-> response, image_key |-> key,
     sources |-> sources, runs |-> runs, source_timeout |-> st, overall_timeout |-> ot,
     called_at |-> called, returned_at |-> clock, results |-> results]

\* mutation: the source list is validated before the cache is looked at
MutantCheckCacheHit(image, sources, timeout_ms, overall_timeout_ms) ==
    LET key == build_image_key(image.repository, image.tag)
        cached == CachedForCheck(key)
    IN  /\ chk.st = "idle"
        /\ cached # << >>
        /\ ~SourcesEmpty(sources)
        /\ outcome' = Returned("hit", "", cached, key, sources, << >>, 0, 0, now, << >>, now)
        /\ nchecks' = nchecks + 1
        /\ UNCHANGED <<now, chk, cacheVars, lockVars, extVars>>

\* lines 103-109: the cache holds a non-expired entry
CheckCacheHit(image, sources, timeout_ms, overall_timeout_ms) ==
    LET key == build_image_key(image.repository, image.tag)
        cached == CachedForCheck(key)
    IN  /\ chk.st = "idle"
        /\ cached # << >>
        /\ outcome' = Returned("hit", "", cached, key, sources, << >>, 0, 0, now, << >>, now)
        /\ nchecks' = nchecks + 1
        /\ UNCHANGED <<now, chk, cacheVars, lockVars, extVars>>

\* lines 111-116: no entry, and an empty source list
CheckRejectEmpty(image, sources, timeout_ms, overall_timeout_ms) ==
    LET key == build_image_key(image.repository, image.tag)
    IN  /\ chk.st = "idle"
        /\ CachedForCheck(key) = << >>
        /\ SourcesEmpty(sources)
        /\ outcome' = Returned("error", "InvalidInput", << >>, key, sources, << >>, 0, 0,
                               now, << >>, now)
        /\ nchecks' = nchecks + 1
        /\ UNCHANGED <<now, chk, cacheVars, lockVars, extVars>>

\* lines 118-137: the providers and their futures are created; the overall timer starts
CheckFanOut(image, sources, runs, timeout_ms, overall_timeout_ms) ==
    LET key == build_image_key(image.repository, image.tag)
        source_timeout == IF timeout_ms = << >> THEN DEFAULT_SOURCE_TIMEOUT_MS ELSE timeout_ms[1]
        overall_timeout ==
            IF overall_timeout_ms = << >> THEN DEFAULT_OVERALL_TIMEOUT_MS ELSE overall_timeout_ms[1]
    IN  /\ chk.st = "idle"
        /\ CachedForCheck(key) = << >>
        /\ ~SourcesEmpty(sources)
        /\ chk' = [st |-> "ready", image_key |-> key, tag |-> image.tag,
                   sources |-> sources,
                   tasks |-> [i \in 1..Len(sources) |-> NewTask(sources[i], runs[i])],
                   source_timeout |-> source_timeout,
                   overall_timeout |-> overall_timeout,
                   called_at |-> now,
                   deadline |-> now + overall_timeout]
        /\ outcome' = NoOutcome
        /\ nchecks' = nchecks + 1
        /\ UNCHANGED <<now, cacheVars, lockVars, extVars>>

Polled == PollAll(chk.tasks, now, chk.source_timeout)

Runs(tasks) == [i \in 1..Len(tasks) |-> tasks[i].run]

Finish(kind, error, response, results, clock) ==
    /\ outcome' = Returned(kind, error, response, chk.image_key, chk.sources, Runs(chk.tasks),
                           chk.source_timeout, chk.overall_timeout, chk.called_at,
                           results, clock)
    /\ chk' = NoCheck
    /\ now' = clock
    /\ UNCHANGED <<got, nchecks, lockVars, extVars>>

\* lines 134-138: the overall timeout future is polled; join_all is not ready
\* and the overall timer has not fired
CheckPark ==
    /\ chk.st = "ready"
    /\ ~AllDone(Polled.tasks)
    /\ Polled.t < chk.deadline
    /\ chk' = [chk EXCEPT !.st = "parked", !.tasks = Polled.tasks]
    /\ now' = Polled.t
    /\ UNCHANGED <<outcome, nchecks, cacheVars, lockVars, extVars>>

\* the same, after a poll that blocked its worker past the overall deadline:
\* the runtime may not have turned the overall timer yet, and the check is then
\* polled once more before the timer is seen
CheckParkTimerLate ==
    /\ chk.st = "ready"
    /\ ~AllDone(Polled.tasks)
    /\ Polled.t >= chk.deadline
    /\ Polled.t > now
    /\ chk' = [chk EXCEPT !.st = "parked", !.tasks = Polled.tasks]
    /\ now' = Polled.t
    /\ UNCHANGED <<outcome, nchecks, cacheVars, lockVars, extVars>>

\* the runtime wakes the parked check at its next event
CheckWake ==
    /\ chk.st = "parked"
    /\ LET w == NextWake(chk.tasks, chk.source_timeout, chk.deadline)
       IN  now' = IF w > now THEN w ELSE now
    /\ chk' = [chk EXCEPT !.st = "ready"]
    /\ UNCHANGED <<outcome, nchecks, cacheVars, lockVars, extVars>>

\* lines 139-144: join_all is not ready and the overall timer has fired
CheckOverallTimeout ==
    /\ chk.st = "ready"
    /\ ~AllDone(Polled.tasks)
    /\ Polled.t >= chk.deadline
    /\ Finish("error", "SourceTimeout", << >>, << >>, Polled.t)
    /\ UNCHANGED check_cache

\* lines 146-149: join_all is ready and every result is !ok
CheckAllFailed ==
    /\ chk.st = "ready"
    /\ AllDone(Polled.tasks)
    /\ AllFailed(Results(Polled.tasks))
    /\ Finish("error", "NoValidSourceResult", << >>, Results(Polled.tasks), Polled.t)
    /\ UNCHANGED check_cache

\* lines 151-177: the response is built, cached and returned
CheckComplete ==
    /\ chk.st = "ready"
    /\ AllDone(Polled.tasks)
    /\ ~AllFailed(Results(Polled.tasks))
    /\ LET response == BuildResponse(chk.image_key, chk.tag, Results(Polled.tasks), Polled.t)
       IN  /\ Finish("fresh", "", <<response>>, Results(Polled.tasks), Polled.t)
           /\ check_cache' = PutCache(check_cache, chk.image_key, response, Polled.t)

-----------------------------------------------------------------------------
(* select_recommended applied to a result list (checker.rs 78-96).  A request  *)
(* may name several sources of one kind (request.sources is a Vec of source    *)
(* configurations), so a result list may hold several results of one kind      *)
(* with different candidates.                                                   *)

NoSel == [st |-> "none", results |-> << >>, recommended |-> << >>]

\* SourceCheckResult values as check_single_source builds them
SampleOk(kind, version) ==
    [source |-> kind, ok |-> TRUE, error_code |-> << >>, error_message |-> << >>,
     latest |-> <<[source |-> kind, version |-> version]>>, elapsed_ms |-> 0]

SampleFailed(kind) == ErrResult(kind, "SourceUnavailable", 0)

SampleResults ==
    {SampleOk(k, v) : k \in SourceKinds, v \in Tags} \cup {SampleFailed(k) : k \in SourceKinds}

\* the results handed to select_recommended
TakeResults(results) ==
    /\ sel.st = "none"
    /\ sel' = [st |-> "given", results |-> results, recommended |-> << >>]
    /\ UNCHANGED <<now, lockVars, cacheVars, checkVars, updateVars, hc, toolVars, unlocked>>

\* let recommended = select_recommended(&results)
SelectRecommended ==
    /\ sel.st = "given"
    /\ sel' = [sel EXCEPT !.st = "selected", !.recommended = select_recommended(sel.results)]
    /\ UNCHANGED <<now, lockVars, cacheVars, checkVars, updateVars, hc, toolVars, unlocked>>

-----------------------------------------------------------------------------
(* updater.rs and rollback.rs: the update pipeline.                            *)
(*                                                                             *)
(* Every pipeline command is a std::process::Command::output() call.  Its      *)
(* outcome is "ok" (exit status 0), "fail" (non-zero exit status) or "err"     *)
(* (the command could not be launched: output() returned Err).  The docker     *)
(* host is the set of its containers; a command that does not end "ok"         *)
(* leaves the host as it was, except docker run, which may leave a stopped     *)
(* container behind.                                                           *)

CommandOutcomes == {"ok", "fail", "err"}

\* a container of the docker host: its status and the operation whose docker
\* run created it ("" for a container the operator deployed)
Container(status, operation_id) == [status |-> status, created_by |-> operation_id]

\* the docker host
Exists(host, name) == name \in DOMAIN host

\* docker inspect <name>: exit status 0 only for an existing container
InspectOutcomes(host, name) ==
    IF Exists(host, name) THEN CommandOutcomes ELSE {"fail", "err"}

\* docker rename <from> <to>
RenameOutcomes(host, from, to) ==
    IF Exists(host, from) /\ ~Exists(host, to) THEN CommandOutcomes ELSE {"fail", "err"}

Rename(host, from, to) ==
    [n \in ((DOMAIN host) \ {from}) \cup {to} |-> IF n = to THEN host[from] ELSE host[n]]

\* docker run --name <name> ..: "fail_created" is a non-zero exit status that
\* leaves the new container on the host
RunOutcomes(host, name) ==
    IF name = "" \/ Exists(host, name) THEN {"fail", "err"} ELSE {"ok", "fail", "fail_created", "err"}

RunEffect(host, name, operation_id, o) ==
    CASE o = "ok" -> MapInsert(host, name, Container("running", operation_id))
      [] o = "fail_created" -> MapInsert(host, name, Container("exited", operation_id))
      [] OTHER -> host

\* docker rm -f <name>
RemoveEffect(host, name, o) == IF o = "ok" THEN MapRemove(host, name) ELSE host

\* docker start <name>
StartOutcomes(host, name) ==
    IF Exists(host, name) THEN CommandOutcomes ELSE {"fail", "err"}

StartEffect(host, name, o) ==
    IF o = "ok" THEN [host EXCEPT ![name].status = "running"] ELSE host

\* "docker run <run_args..> <new_image_tag>" as the docker CLI reads it: options
\* up to the first token that is not one; "--name" takes the next token as
\* its value, whatever that token is; the last name given wins; without an
\* image token the command line is rejected.  name = "" is no name given.
NameOptions == [t \in {"--name=web"} |-> "web"]

RECURSIVE DockerArgs(_, _, _)
DockerArgs(args, i, name) ==
    IF i > Len(args) THEN [valid |-> FALSE, name |-> name]
    ELSE IF args[i] = "--name"
         THEN IF i + 1 > Len(args) THEN [valid |-> FALSE, name |-> name]
              ELSE DockerArgs(args, i + 2, args[i + 1])
    ELSE IF args[i] \in DOMAIN NameOptions THEN DockerArgs(args, i + 1, NameOptions[args[i]])
    ELSE IF args[i] = "-d" THEN DockerArgs(args, i + 1, name)
    ELSE [valid |-> TRUE, name |-> name]

\* the name of the container a docker run of this operation creates ("" when
\* the command line is rejected, as it is for a name that starts with a
\* dash); an unnamed container gets a generated name
RunTarget(u) ==
    LET parsed == DockerArgs(Append(u.run_args, u.new_image_tag), 1, "")
    IN  IF ~parsed.valid \/ (parsed.name # "" /\ SubSeq(parsed.name, 1, 1) = "-") THEN ""
        ELSE IF parsed.name = "" THEN "generated-" \o u.operation_id
        ELSE parsed.name

\* mutation: the value of the last "--name" option is taken
MutantExtractContainerName(run_args) ==
    LET at == {i \in 1..(Len(run_args) - 1) : run_args[i] = "--name"}
    IN  IF at = {} THEN "" ELSE run_args[(CHOOSE i \in at : \A j \in at : j <= i) + 1]

\* extract_container_name: the token after the first "--name", else ""
RECURSIVE NameFrom(_, _)
NameFrom(run_args, i) ==
    IF i > Len(run_args) THEN ""
    ELSE IF run_args[i] = "--name" /\ i + 1 <= Len(run_args) THEN run_args[i + 1]
    ELSE NameFrom(run_args, i + 1)

extract_container_name(run_args) == NameFrom(run_args, 1)

\* RollbackManager::new
backup_container_name(container_name, operation_id) ==
    container_name \o "-backup-" \o operation_id

\* UpdateStepLog (step, ok, skipped)
StepLog(step, ok, skipped) == [step |-> step, ok |-> ok, skipped |-> skipped]

\* mutation: the default value already reports a rollback
MutantDefaultRollback ==
    [attempted |-> TRUE, restored |-> FALSE, backup_container |-> << >>, error |-> << >>]

\* RollbackResult::default()
DefaultRollback ==
    [attempted |-> FALSE, restored |-> FALSE, backup_container |-> << >>, error |-> << >>]

\* mutation: rollback() does not report that it ran
MutantRollbackOutcome(bname, restored, error) ==
    [attempted |-> FALSE, restored |-> restored, backup_container |-> <<bname>>, error |-> error]

\* mutation: rollback reports restored whatever its commands did
MutantRestored(bname, restored, error) ==
    [attempted |-> TRUE, restored |-> TRUE, backup_container |-> <<bname>>, error |-> error]

\* the RollbackResult values rollback() builds
RollbackOutcome(bname, restored, error) ==
    [attempted |-> TRUE, restored |-> restored, backup_container |-> <<bname>>, error |-> error]

\* a command the pipeline has issued, with its outcome
Cmd(name, o) == [cmd |-> name, outcome |-> o]

\* no update_image_and_restart call yet
NoUpd ==
    [st |-> "idle", operation_id |-> "", image_key |-> "", container_name |-> "",
     backup_name |-> "", new_image_tag |-> "", logs |-> << >>, cmds |-> << >>,
     result |-> "none", response |-> << >>, error |-> << >>, before |-> EmptyMap, n |-> 0,
     run_args |-> << >>, targets |-> << >>]

updateFrame == <<now, lockVars, cacheVars, checkVars, sel, hc, toolVars, unlocked>>

\* mutation: a skipped step does not count as passed
MutantSuccess(logs) == \A i \in 1..Len(logs) : logs[i].ok /\ ~logs[i].skipped

\* let success = logs.iter().all(|log| log.ok || log.skipped)
Success(logs) == \A i \in 1..Len(logs) : logs[i].ok \/ logs[i].skipped

\* update_image_and_restart: Ok((logs, rollback)) => Ok(UpdateImageAndRestartResponse {..})
UpdateResponse(u, logs, rollback) ==
    [operation_id |-> u.operation_id,
     image_key |-> u.image_key,
     success |-> Success(logs),
     final_image_ref |-> IF Success(logs) THEN <<u.new_image_tag>> ELSE << >>,
     step_logs |-> logs,
     rollback |-> rollback]

\* execute returns Ok((logs, rollback)) and update_image_and_restart its response
ReturnOk(u, logs, cmds, rollback) ==
    [u EXCEPT !.st = "done", !.logs = logs, !.cmds = cmds, !.result = "ok",
              !.response = <<UpdateResponse(u, logs, rollback)>>]

\* execute returns Err(StepFailed { step, .. }), passed on by update_image_and_restart
ReturnErr(u, cmds, step) ==
    [u EXCEPT !.st = "done", !.cmds = cmds, !.result = "err", !.error = <<step>>]

\* a component (backup, health_check, rollback) has acted on the container
\* name it was constructed with
Aimed(u, by, name) == [u EXCEPT !.targets = Append(@, [by |-> by, name |-> name])]

\* mutation: the pipeline goes on without recording the step's log
MutantAdvance(u, logs, cmds, next) == [u EXCEPT !.st = next, !.cmds = cmds]

\* a step ended: its log is pushed and the pipeline goes on to `next`
Advance(u, logs, cmds, next) == [u EXCEPT !.st = next, !.logs = logs, !.cmds = cmds]

\* update_image_and_restart(request): the orchestrator and the rollback manager
\* are built; nothing has run yet
UpdateBegin(operation_id, image, run_args, new_image_tag) ==
    /\ upd.st \in {"idle", "done"}
    /\ LET name == extract_container_name(run_args)
       IN  upd' = [NoUpd EXCEPT !.st = "git_pull",
                                !.operation_id = operation_id,
                                !.image_key = build_image_key(image.repository, image.tag),
                                !.container_name = name,
                                !.backup_name = backup_container_name(name, operation_id),
                                !.new_image_tag = new_image_tag,
                                !.run_args = run_args,
                                !.before = docker,
                                !.n = upd.n + 1]
    /\ UNCHANGED <<docker, updateFrame>>

\* the shape shared by git_pull and docker_build: one command, a log for exit
\* status 0 or not, Err when the command cannot be launched
PlainStep(step, next) ==
    /\ upd.st = step
    /\ \E o \in CommandOutcomes :
          LET cmds == Append(upd.cmds, Cmd(step, o))
              logs == Append(upd.logs, StepLog(step, o = "ok", FALSE))
          IN  upd' = CASE o = "ok" -> Advance(upd, logs, cmds, next)
                       [] o = "fail" -> ReturnOk(upd, logs, cmds, DefaultRollback)
                       [] o = "err" -> ReturnErr(upd, cmds, step)
    /\ UNCHANGED <<docker, updateFrame>>

\* Step 1: git pull
StepGitPull == PlainStep("git_pull", "docker_build")

\* Step 2: docker build
StepDockerBuild == PlainStep("docker_build", "backup_container")

\* Step 3: rollback_mgr.backup_container(): docker inspect, then docker rename
StepBackup ==
    /\ upd.st = "backup_container"
    /\ \E oi \in InspectOutcomes(docker, upd.container_name) :
          LET ci == Append(upd.cmds, Cmd("inspect", oi))
              b == Aimed(upd, "backup", upd.container_name)
          IN  CASE oi = "fail" ->
                     /\ upd' = Advance(b, Append(upd.logs, StepLog("backup_container", TRUE, TRUE)),
                                       ci, "docker_run")
                     /\ docker' = docker
                [] oi = "err" ->
                     /\ upd' = ReturnOk(b, Append(upd.logs, StepLog("backup_container", FALSE, FALSE)),
                                        ci, DefaultRollback)
                     /\ docker' = docker
                [] oi = "ok" ->
                     \E o \in RenameOutcomes(docker, upd.container_name, upd.backup_name) :
                        LET cmds == Append(ci, Cmd("rename_backup", o))
                            logs == Append(upd.logs, StepLog("backup_container", o = "ok", FALSE))
                        IN  CASE o = "ok" ->
                                   /\ upd' = Advance(b, logs, cmds, "docker_run")
                                   /\ docker' = Rename(docker, upd.container_name, upd.backup_name)
                              [] o = "fail" ->
                                   /\ upd' = ReturnOk(b, logs, cmds, DefaultRollback)
                                   /\ docker' = docker
                              [] o = "err" ->
                                   /\ upd' = ReturnErr(b, cmds, "backup_container")
                                   /\ docker' = docker
    /\ UNCHANGED updateFrame

\* Step 4: docker run; a failed or unlaunched run goes to rollback
StepDockerRun ==
    /\ upd.st = "docker_run"
    /\ \E o \in RunOutcomes(docker, RunTarget(upd)) :
          LET cmds == Append(upd.cmds, Cmd("docker_run", o))
              logs == Append(upd.logs, StepLog("docker_run", o = "ok", FALSE))
          IN  /\ upd' = CASE o = "ok" -> Advance(upd, logs, cmds, "health_check")
                          [] o \in {"fail", "fail_created"} -> Advance(upd, logs, cmds, "rollback")
                          [] o = "err" -> Advance(upd, upd.logs, cmds, "rollback")
              /\ docker' = RunEffect(docker, RunTarget(upd), upd.operation_id, o)
    /\ UNCHANGED updateFrame

\* HealthChecker::new(container_name, ..).wait_until_healthy(): Ok ("ok") needs
\* a container of that name to be seen running; a docker inspect that finds
\* none ends the wait with Err ("fail")
HealthOutcomes(host, name) == IF Exists(host, name) THEN {"ok", "fail"} ELSE {"fail"}

\* mutation: the pipeline goes on to the cleanup whatever the health check said
MutantStepHealthCheck ==
    /\ upd.st = "health_check"
    /\ \E o \in HealthOutcomes(docker, upd.container_name) :
          LET cmds == Append(upd.cmds, Cmd("health_check", o))
              logs == Append(upd.logs, StepLog("health_check", o = "ok", FALSE))
          IN  upd' = Advance(Aimed(upd, "health_check", upd.container_name), logs, cmds, "cleanup")
    /\ UNCHANGED <<docker, updateFrame>>

\* Step 5: health_checker.wait_until_healthy() returned Ok ("ok") or Err ("fail")
StepHealthCheck ==
    /\ upd.st = "health_check"
    /\ \E o \in HealthOutcomes(docker, upd.container_name) :
          LET cmds == Append(upd.cmds, Cmd("health_check", o))
              logs == Append(upd.logs, StepLog("health_check", o = "ok", FALSE))
          IN  upd' = Advance(Aimed(upd, "health_check", upd.container_name), logs, cmds,
                             IF o = "ok" THEN "cleanup" ELSE "rollback")
    /\ UNCHANGED <<docker, updateFrame>>

\* rollback_mgr.rollback(): docker rm -f, docker rename back, docker start
StepRollback ==
    /\ upd.st = "rollback"
    /\ \E orm \in CommandOutcomes :
          LET h1 == RemoveEffect(docker, upd.container_name, orm)
              c1 == Append(upd.cmds, Cmd("rm_new", orm))
              r == Aimed(upd, "rollback", upd.container_name)
          IN  \E ore \in RenameOutcomes(h1, upd.backup_name, upd.container_name) :
                 LET c2 == Append(c1, Cmd("rename_restore", ore))
                 IN  IF ore # "ok"
                     THEN /\ docker' = h1
                          /\ upd' = ReturnOk(r, upd.logs, c2,
                                             RollbackOutcome(upd.backup_name, FALSE, <<"rename">>))
                     ELSE LET h2 == Rename(h1, upd.backup_name, upd.container_name)
                          IN  \E os \in StartOutcomes(h2, upd.container_name) :
                                 /\ docker' = StartEffect(h2, upd.container_name, os)
                                 /\ upd' = ReturnOk(r, upd.logs, Append(c2, Cmd("start", os)),
                                              RollbackOutcome(upd.backup_name, os = "ok",
                                                 IF os = "ok" THEN << >> ELSE <<"start">>))
    /\ UNCHANGED updateFrame

\* "let _ = rollback_mgr.cleanup_backup();" then Ok((logs, RollbackResult::default()))
StepCleanup ==
    /\ upd.st = "cleanup"
    /\ \E o \in CommandOutcomes :
          /\ docker' = RemoveEffect(docker, upd.backup_name, o)
          /\ upd' = ReturnOk(upd, upd.logs, Append(upd.cmds, Cmd("rm_backup", o)), DefaultRollback)
    /\ UNCHANGED updateFrame

-----------------------------------------------------------------------------
(* health_check.rs: HealthChecker::wait_until_healthy.                         *)
(*                                                                             *)
(* Each poll is a blocking "docker inspect --format {{.State.Status}}" run     *)
(* with Command::output(): it takes `latency` ms and yields what it observed:  *)
(* a container state, "missing" (non-zero exit status) or "err" (the command   *)
(* could not be launched).  The deadline is tested at the top of the loop      *)
(* only.                                                                       *)
(*                                                                             *)
(* Instant has a finer resolution than the millisecond clock `now`: between    *)
(* Instant::now() and the first start.elapsed() a fraction of a millisecond    *)
(* passes, which the monotonic clock may or may not resolve; residue_ns is     *)
(* that fraction as the clock reports it.                                      *)

check_interval_ms == 1000

NoHc ==
    [st |-> "idle", health_check_ms |-> 0, max_wait_seconds |-> 0,
     started_at |-> 0, residue_ns |-> 0, seen |-> << >>,
     slow |-> FALSE, result |-> "none", returned_at |-> 0, n |-> 0]

healthFrame == <<lockVars, cacheVars, checkVars, sel, updateVars, toolVars, unlocked>>

\* "HealthChecker::new(container_name, self.timeouts.health_check_ms / 1000)"
MaxWaitOf(health_check_ms) == health_check_ms \div 1000

\* HealthChecker::new(container_name, max_wait_seconds) and the first line of
\* wait_until_healthy: let start = Instant::now()
HealthBegin(health_check_ms, residue_ns) ==
    /\ hc.st \in {"idle", "done"}
    /\ hc' = [NoHc EXCEPT !.st = "deadline", !.health_check_ms = health_check_ms,
                          !.max_wait_seconds = MaxWaitOf(health_check_ms),
                          !.started_at = now, !.residue_ns = residue_ns,
                          !.n = hc.n + 1]
    /\ UNCHANGED <<now, healthFrame>>

\* mutation: the deadline never passes
MutantDeadlinePassed(started_at, residue_ns, max_wait_seconds, clock) == FALSE

\* "if start.elapsed() > timeout { return Err(StepFailed) }"
DeadlinePassed(started_at, residue_ns, max_wait_seconds, clock) ==
    \/ clock - started_at > Secs(max_wait_seconds)
    \/ clock - started_at = Secs(max_wait_seconds) /\ residue_ns > 0

HealthDeadline ==
    /\ hc.st = "deadline"
    /\ hc' = IF DeadlinePassed(hc.started_at, hc.residue_ns, hc.max_wait_seconds, now)
             THEN [hc EXCEPT !.st = "done", !.result = "StepFailed", !.returned_at = now]
             ELSE [hc EXCEPT !.st = "inspect"]
    /\ UNCHANGED <<now, healthFrame>>

\* self.check_container_status() and the match on its value
HealthInspect(latency, observed) ==
    /\ hc.st = "inspect"
    /\ now' = now + latency
    /\ LET seen == Append(hc.seen, observed)
           h == [hc EXCEPT !.seen = seen, !.slow = hc.slow \/ latency > check_interval_ms]
       IN  hc' = CASE observed = "running" ->
                        [h EXCEPT !.st = "done", !.result = "ok", !.returned_at = now']
                   [] observed \in {"missing", "err"} ->
                        [h EXCEPT !.st = "done", !.result = "StepFailed", !.returned_at = now']
                   [] OTHER -> [h EXCEPT !.st = "sleep"]
    /\ UNCHANGED healthFrame

\* thread::sleep(Duration::from_millis(self.check_interval_ms)); continue
HealthSleep ==
    /\ hc.st = "sleep"
    /\ now' = now + check_interval_ms
    /\ hc' = [hc EXCEPT !.st = "deadline"]
    /\ UNCHANGED healthFrame

-----------------------------------------------------------------------------
(* docker_hub.rs: DockerHubProvider::filter_and_sort_tags and the end of       *)
(* fetch_latest.                                                               *)
(*                                                                             *)
(* A string is a sequence of character codes; String::cmp is the               *)
(* lexicographic order on it.  A tag is [name, last_updated].  tag_regex is    *)
(* << >> (None) or <<pattern>>; regex::Regex::new and Regex::is_match are      *)
(* given by the table Patterns: a pattern either fails to compile or matches   *)
(* a set of names.                                                             *)

\* Ordering of a.cmp(b) on strings: -1 (Less), 0 (Equal), 1 (Greater)
RECURSIVE StrCmp(_, _)
StrCmp(a, b) ==
    IF a = << >> /\ b = << >> THEN 0
    ELSE IF a = << >> THEN -1
    ELSE IF b = << >> THEN 1
    ELSE IF Head(a) < Head(b) THEN -1
    ELSE IF Head(a) > Head(b) THEN 1
    ELSE StrCmp(Tail(a), Tail(b))

Patterns ==
    [digits  |-> [compiles |-> TRUE,  matches |-> {"1.21.0", "1.22.0"}],
     nothing |-> [compiles |-> TRUE,  matches |-> {}],
     broken  |-> [compiles |-> FALSE, matches |-> {}]]

\* the closure passed to filter(): true when the tag is kept
TagPasses(tag_regex, tag) ==
    IF tag_regex # << >> /\ Patterns[tag_regex[1]].compiles
    THEN tag.name \in Patterns[tag_regex[1]].matches
    ELSE TRUE

FilterTags(tag_regex, tags) == SelectSeq(tags, LAMBDA t : TagPasses(tag_regex, t))

\* mutation: the comparator sorts oldest first
MutantSortsBefore(a, b) == StrCmp(a.last_updated, b.last_updated) = -1

\* sort_by(|a, b| b.last_updated.cmp(&a.last_updated)): a goes before b when the
\* comparator says Less
SortsBefore(a, b) == StrCmp(b.last_updated, a.last_updated) = -1

\* slice::sort_by is stable: an element is placed after every element it does
\* not sort before
RECURSIVE InsertSorted(_, _)
InsertSorted(sorted, t) ==
    IF sorted = << >> THEN <<t>>
    ELSE IF SortsBefore(t, Head(sorted)) THEN <<t>> \o sorted
    ELSE <<Head(sorted)>> \o InsertSorted(Tail(sorted), t)

RECURSIVE SortTags(_)
SortTags(tags) ==
    IF tags = << >> THEN << >>
    ELSE InsertSorted(SortTags(SubSeq(tags, 1, Len(tags) - 1)), tags[Len(tags)])

filter_and_sort_tags(tag_regex, tags) ==
    LET filtered == SortTags(FilterTags(tag_regex, tags))
    IN  IF filtered = << >> THEN << >> ELSE <<Head(filtered)>>

NoTags == [st |-> "none", tag_regex |-> << >>, tags |-> << >>, result |-> "none", version |-> ""]

tagsFrame == <<now, lockVars, cacheVars, checkVars, sel, updateVars, hc, pr, api, unlocked>>

\* response.json() gave tags_response.results
TakeTags(tag_regex, tags) ==
    /\ tg.st = "none"
    /\ tg' = [NoTags EXCEPT !.st = "fetched", !.tag_regex = tag_regex, !.tags = tags]
    /\ UNCHANGED tagsFrame

\* filter_and_sort_tags(..).ok_or_else(|| Parse("No matching tags found"))? and
\* the VersionCandidate built from the tag
SelectTag ==
    /\ tg.st = "fetched"
    /\ LET latest_tag == filter_and_sort_tags(tg.tag_regex, tg.tags)
       IN  tg' = IF latest_tag = << >>
                 THEN [tg EXCEPT !.st = "done", !.result = "Parse"]
                 ELSE [tg EXCEPT !.st = "done", !.result = "ok", !.version = latest_tag[1].name]
    /\ UNCHANGED tagsFrame

-----------------------------------------------------------------------------
(* custom_api.rs: CustomApiProvider::fetch_latest.                             *)
(*                                                                             *)
(* Strings are read character by character.  A response body is of kind       *)
(* "invalid" (no JSON), "array", or "object" with fields: a function from      *)
(* names to values of kind "string" or "number".                               *)

Char(str, i) == SubSeq(str, i, i)

StartsWith(str, prefix) == Len(str) >= Len(prefix) /\ SubSeq(str, 1, Len(prefix)) = prefix

\* mutation: every endpoint is accepted
MutantValidateUrl(endpoint) == TRUE

\* validate_url: Ok(()) or InvalidInput
validate_url(endpoint) == StartsWith(endpoint, "http://") \/ StartsWith(endpoint, "https://")

\* str::to_uppercase on the letters that occur
UpperOf == [c \in {"g", "e", "t", "p", "o", "s", "u"} |->
              CASE c = "g" -> "G" [] c = "e" -> "E" [] c = "t" -> "T" [] c = "p" -> "P"
                [] c = "o" -> "O" [] c = "s" -> "S" [] c = "u" -> "U"]

RECURSIVE UpperFrom(_, _)
UpperFrom(str, i) ==
    IF i > Len(str) THEN ""
    ELSE (IF Char(str, i) \in DOMAIN UpperOf THEN UpperOf[Char(str, i)] ELSE Char(str, i))
            \o UpperFrom(str, i + 1)

to_uppercase(str) == UpperFrom(str, 1)

\* char::is_alphanumeric on the characters that occur
Alphanumeric ==
    {"a", "b", "d", "e", "i", "k", "n", "o", "t", "x", "y", "X", "T", "0", "1", "2"}

\* header.key.chars().all(|c| c.is_alphanumeric() || c == '-' || c == '_')
HeaderKeyAllowed(key) ==
    \A i \in 1..Len(key) : Char(key, i) \in Alphanumeric \cup {"-", "_"}

\* RequestBuilder::header keeps an error for a name that is no HTTP token (the
\* empty name passes the check above); send() then fails without sending
HeaderNameValid(key) == key # ""

\* extract_field: json.get(field).and_then(|v| v.as_str())
extract_field(json, field) ==
    IF json.kind = "object" /\ field \in DOMAIN json.fields /\ json.fields[field].kind = "string"
    THEN <<json.fields[field].v>>
    ELSE << >>

\* notes_field / published_at_field: Option<String>.and_then(extract_field)
extract_optional(json, field) == IF field = << >> THEN << >> ELSE extract_field(json, field[1])

NoApi ==
    [st |-> "none", config |-> << >>, client_ok |-> TRUE, i |-> 0, sent |-> FALSE,
     reply |-> << >>, result |-> "none", candidate |-> << >>]

apiFrame == <<now, lockVars, cacheVars, checkVars, sel, updateVars, hc, tg, pr, unlocked>>

ApiDone(err) == api' = [api EXCEPT !.st = "done", !.result = err]

\* fetch_latest is called on a provider built from `config`; client_ok: whether
\* reqwest::Client::builder().build() will succeed
ApiCall(config, client_ok) ==
    /\ api.st = "none"
    /\ api' = [NoApi EXCEPT !.st = "validate", !.config = <<config>>, !.client_ok = client_ok]
    /\ UNCHANGED apiFrame

\* lines 42-62: validate_url()?, the client, the method
ApiPrepare ==
    /\ api.st = "validate"
    /\ LET config == api.config[1]
       IN  IF ~validate_url(config.endpoint) THEN ApiDone("InvalidInput")
           ELSE IF ~api.client_ok THEN ApiDone("Http")
           ELSE IF to_uppercase(config.method) \notin {"GET", "POST"} THEN ApiDone("InvalidInput")
           ELSE api' = [api EXCEPT !.st = "headers", !.i = 1]
    /\ UNCHANGED apiFrame

\* lines 64-74: one turn of "for header in &self.config.headers"
ApiHeader ==
    /\ api.st = "headers"
    /\ api.i <= Len(api.config[1].headers)
    /\ IF ~HeaderKeyAllowed(api.config[1].headers[api.i]) THEN ApiDone("InvalidInput")
       ELSE api' = [api EXCEPT !.i = @ + 1]
    /\ UNCHANGED apiFrame

\* lines 76-99: request.send().await, the status, response.json().await.
\* reply.kind: "timeout", "unreachable", "status" (not 2xx), or "body" with its json
ApiSend(reply) ==
    /\ api.st = "headers"
    /\ api.i > Len(api.config[1].headers)
    /\ LET headers == api.config[1].headers
       IN  IF \E i \in 1..Len(headers) : ~HeaderNameValid(headers[i])
           THEN ApiDone("SourceUnavailable")
           ELSE api' = [api EXCEPT !.st = "replied", !.sent = TRUE, !.reply = <<reply>>]
    /\ UNCHANGED apiFrame

\* lines 76-126: the outcome of the request and the candidate built from it
ApiRead ==
    /\ api.st = "replied"
    /\ LET reply == api.reply[1]
           config == api.config[1]
       IN  CASE reply.kind = "timeout" -> ApiDone("SourceTimeout")
             [] reply.kind \in {"unreachable", "status"} -> ApiDone("SourceUnavailable")
             [] OTHER ->
                  LET json == reply.json
                  IN  IF json.kind = "invalid" \/ extract_field(json, config.version_field) = << >>
                      THEN ApiDone("Parse")
                      ELSE api' = [api EXCEPT
                              !.st = "done", !.result = "ok",
                              !.candidate =
                                 <<[source |-> "CustomApi",
                                    version |-> extract_field(json, config.version_field)[1],
                                    release_notes |-> extract_optional(json, config.notes_field),
                                    published_at |->
                                       extract_optional(json, config.published_at_field)]>>]
    /\ UNCHANGED apiFrame

-----------------------------------------------------------------------------
(* process_runner.rs: execute_process_with_timeout_in_dir.                     *)
(*                                                                             *)
(* The spawned process exits `runs_ms` after the spawn with `exit_code`        *)
(* (status.code().unwrap_or(-1)); the loop polls try_wait() and sleeps 20 ms   *)
(* between polls.                                                              *)

TIMEOUT_EXIT_CODE == -1000
POLL_SLEEP_MS == 20

NoProc ==
    [st |-> "idle", timeout_ms |-> 0, started_at |-> 0, runs_ms |-> 0, exit_code |-> 0,
     result |-> "none", capture_code |-> 0, killed |-> FALSE, returned_at |-> 0, n |-> 0]

procFrame == <<lockVars, cacheVars, checkVars, sel, updateVars, hc, tg, api, unlocked>>

Max2(a, b) == IF a >= b THEN a ELSE b

\* spawn(): Err when the command cannot be started
ProcSpawn(timeout_ms, spawned, runs_ms, exit_code) ==
    /\ pr.st \in {"idle", "done"}
    /\ pr' = IF spawned
             THEN [NoProc EXCEPT !.st = "poll", !.timeout_ms = timeout_ms, !.started_at = now,
                                 !.runs_ms = runs_ms, !.exit_code = exit_code, !.n = pr.n + 1]
             ELSE [NoProc EXCEPT !.st = "done", !.timeout_ms = timeout_ms, !.started_at = now,
                                 !.result = "Err", !.returned_at = now, !.n = pr.n + 1]
    /\ UNCHANGED <<now, procFrame>>

\* one turn of the loop: child.try_wait(), then the elapsed test, then the sleep
ProcPoll ==
    /\ pr.st = "poll"
    /\ IF now - pr.started_at >= pr.runs_ms
       THEN /\ pr' = [pr EXCEPT !.st = "done", !.result = "Ok", !.capture_code = pr.exit_code,
                                !.returned_at = now]
            /\ now' = now
       ELSE IF now - pr.started_at >= Max2(pr.timeout_ms, 1)
       THEN /\ pr' = [pr EXCEPT !.st = "done", !.result = "Ok", !.capture_code = TIMEOUT_EXIT_CODE,
                                !.killed = TRUE, !.returned_at = now]
            /\ now' = now
       ELSE /\ pr' = pr
            /\ now' = now + POLL_SLEEP_MS
    /\ UNCHANGED procFrame

-----------------------------------------------------------------------------
(* Callers issuing try_lock_update / unlock_update in any order *)

\* VersionRuntimeState::new() and no call in progress
StateInit ==
    /\ now = 0
    /\ check_cache = EmptyMap
    /\ got = NoGot
    /\ chk = NoCheck
    /\ outcome = NoOutcome
    /\ nchecks = 0
    /\ update_locks = EmptyMap
    /\ locks_guard = 0
    /\ pc = [c \in Callers |-> "idle"]
    /\ arg = [c \in Callers |-> NoArg]
    /\ lock_result = NoResult
    /\ grants = [k \in ImageKeys |-> {}]
    /\ phase = [c \in Callers |-> [st |-> "none", image_key |-> "", since |-> 0]]
    /\ overran = [k \in ImageKeys |-> FALSE]
    /\ sel = NoSel
    /\ upd = NoUpd
    /\ docker = EmptyMap
    /\ hc = NoHc
    /\ tg = NoTags
    /\ pr = NoProc
    /\ unlocked = NoUnlock
    /\ api = NoApi

CallTryLock == \E c \in Callers, k \in ImageKeys : TryLockBegin(c, k, OperationId(c)) /\ UNCHANGED discipline
StepSweep == \E c \in Callers : TryLockSweep(c) /\ UNCHANGED discipline
StepConflict == \E c \in Callers : TryLockConflict(c) /\ UNCHANGED discipline
StepPass == \E c \in Callers : TryLockPass(c) /\ UNCHANGED discipline
StepInsert == \E c \in Callers : TryLockInsert(c) /\ UNCHANGED discipline
CallUnlock == \E c \in Callers, k \in ImageKeys : UnlockUpdate(c, k) /\ UNCHANGED discipline
ClockTick == LockTick /\ UNCHANGED discipline

LockNext ==
    \/ CallTryLock
    \/ StepSweep
    \/ StepConflict
    \/ StepPass
    \/ StepInsert
    \/ CallUnlock
    \/ ClockTick

SpecLock == StateInit /\ [][LockNext]_vars

-----------------------------------------------------------------------------
(* Callers that follow the acquire / update / release discipline:          *)
(* try_lock_update(K, op) succeeds -> update_image_and_restart ->          *)
(* unlock_update(K) on every exit path.  The pipeline blocks its worker    *)
(* for as long as its subprocesses take, so the clock may advance by any   *)
(* amount while a caller is in phase "updating".                           *)

NoPhase == [st |-> "none", image_key |-> "", since |-> 0]

AcquireBegin ==
    \E c \in Callers, k \in ImageKeys :
        /\ phase[c].st = "none"
        /\ TryLockBegin(c, k, OperationId(c))
        /\ phase' = [phase EXCEPT ![c] = [st |-> "acquiring", image_key |-> k, since |-> 0]]
        /\ UNCHANGED overran

AcquireSweep == \E c \in Callers : TryLockSweep(c) /\ UNCHANGED discipline

AcquireConflict ==
    \E c \in Callers :
        /\ TryLockConflict(c)
        /\ phase' = [phase EXCEPT ![c] = NoPhase]
        /\ UNCHANGED overran

AcquirePass == \E c \in Callers : TryLockPass(c) /\ UNCHANGED discipline

\* Ok(()) returned: the caller starts update_image_and_restart
AcquireInsert ==
    \E c \in Callers :
        /\ TryLockInsert(c)
        /\ phase' = [phase EXCEPT ![c] = [@ EXCEPT !.st = "updating", !.since = now]]
        /\ UNCHANGED overran

\* update_image_and_restart returns (Ok or Err) or unwinds
update_image_and_restart_returns ==
    \E c \in Callers :
        /\ phase[c].st = "updating"
        /\ phase' = [phase EXCEPT ![c] = [@ EXCEPT !.st = "releasing"]]
        /\ UNCHANGED <<now, update_locks, locks_guard, pc, arg, lock_result, grants, overran, cacheVars, checkVars, extVars>>

Release ==
    \E c \in Callers :
        /\ phase[c].st = "releasing"
        /\ UnlockUpdate(c, phase[c].image_key)
        /\ phase' = [phase EXCEPT ![c] = NoPhase]
        /\ UNCHANGED overran

\* a caller between its successful try_lock_update and its unlock_update of k
\* whose lock is older than the stale-lock timeout at clock value `clock`
HeldTooLong(k, clock) ==
    \E c \in Callers :
        /\ phase[c].st \in {"updating", "releasing"}
        /\ phase[c].image_key = k
        /\ IsExpired(phase[c].since, Secs(LOCK_TIMEOUT_SECS), clock)

DisciplineTick ==
    /\ LockTick
    /\ overran' = [k \in ImageKeys |-> overran[k] \/ HeldTooLong(k, now')]
    /\ UNCHANGED phase

DisciplineNext ==
    \/ AcquireBegin
    \/ AcquireSweep
    \/ AcquireConflict
    \/ AcquirePass
    \/ AcquireInsert
    \/ update_image_and_restart_returns
    \/ Release
    \/ DisciplineTick

SpecDiscipline == StateInit /\ [][DisciplineNext]_vars

-----------------------------------------------------------------------------
(* Callers using the check cache directly, as test_cache_expiration does *)

MaxCacheClockSec == 62

CacheTickSteps == {Secs(29), Secs(30), Secs(31)}

CacheTtls == {0, Secs(CHECK_CACHE_TTL_SECONDS), Secs(60)}

\* the response of test_cache_expiration, and one that differs from it
SampleResponses(key) ==
    {[image_key |-> key, current_version |-> <<"1.0.0">>, has_update |-> u,
      recommended |-> << >>, results |-> << >>, checked_at_ms |-> 0] : u \in BOOLEAN}

CallCacheCheck ==
    \E k \in ImageKeys : \E r \in SampleResponses(k) : cache_check(k, r)

CallGetCachedCheck ==
    \E k \in ImageKeys, ttl \in CacheTtls : get_cached_check(k, ttl)

CacheTick ==
    \E d \in CacheTickSteps :
        /\ now + d <= Secs(MaxCacheClockSec)
        /\ now' = now + d
        /\ UNCHANGED <<cacheVars, lockVars, checkVars, extVars>>

CacheNext ==
    \/ CallCacheCheck
    \/ CallGetCachedCheck
    \/ CacheTick

SpecCache == StateInit /\ [][CacheNext]_vars

-----------------------------------------------------------------------------
(* Callers of check_image_version, one call at a time *)

MaxChecks == 2
MaxCheckClockSec == 62

Images == {[repository |-> r, tag |-> t] : r \in Repositories, t \in Tags}

HttpRuns ==
    {[latency |-> 1000, outcome |-> "ok"],
     [latency |-> 20000, outcome |-> "ok"],
     [latency |-> 1000, outcome |-> "SourceUnavailable"]}

GitRuns ==
    {[latency |-> 1000, outcome |-> "ok"],
     [latency |-> 20000, outcome |-> "ok"],
     [latency |-> 0, outcome |-> "InvalidInput"]}

CustomApiRuns ==
    {[latency |-> 0, outcome |-> "InvalidInput"],
     [latency |-> 1000, outcome |-> "ok"]}

RunsOf(kind) ==
    CASE kind = "LocalGit" -> GitRuns
      [] kind = "CustomApi" -> CustomApiRuns
      [] OTHER -> HttpRuns

RequestSourceLists ==
    {<< >>, <<"LocalGit">>, <<"DockerHub", "LocalGit">>, <<"CustomApi", "GithubRelease">>}

\* (timeout_ms, overall_timeout_ms)
RequestTimeouts ==
    {<< << >>, << >> >>, << << >>, <<5000>> >>, << <<500>>, << >> >>}

RunLists(sources) ==
    {rs \in [1..Len(sources) -> HttpRuns \cup GitRuns \cup CustomApiRuns] :
        \A i \in 1..Len(sources) : rs[i] \in RunsOf(sources[i])}

CallCheckHit ==
    \E image \in Images, sources \in RequestSourceLists, to \in RequestTimeouts :
        /\ nchecks < MaxChecks
        /\ CheckCacheHit(image, sources, to[1], to[2])

CallCheckEmpty ==
    \E image \in Images, sources \in RequestSourceLists, to \in RequestTimeouts :
        /\ nchecks < MaxChecks
        /\ CheckRejectEmpty(image, sources, to[1], to[2])

CallCheckFanOut ==
    \E image \in Images, sources \in RequestSourceLists, to \in RequestTimeouts :
        \E runs \in RunLists(sources) :
            /\ nchecks < MaxChecks
            /\ CheckFanOut(image, sources, runs, to[1], to[2])

CheckTickSteps == {Secs(30), Secs(31)}

CheckTick ==
    \E d \in CheckTickSteps :
        /\ chk.st = "idle"
        /\ now + d <= Secs(MaxCheckClockSec)
        /\ now' = now + d
        /\ UNCHANGED <<cacheVars, checkVars, extVars, lockVars>>

CheckNext ==
    \/ CallCheckHit
    \/ CallCheckEmpty
    \/ CallCheckFanOut
    \/ CheckPark
    \/ CheckParkTimerLate
    \/ CheckWake
    \/ CheckOverallTimeout
    \/ CheckAllFailed
    \/ CheckComplete
    \/ CheckTick

SpecCheck == StateInit /\ [][CheckNext]_vars

-----------------------------------------------------------------------------
(* Checks without timeout overrides, against sources of every speed *)

SlowRuns ==
    {[latency |-> 1000, outcome |-> "ok"],
     [latency |-> 20000, outcome |-> "ok"],
     [latency |-> 40000, outcome |-> "ok"]}

DefaultTimeoutSourceLists == {<<"LocalGit">>, <<"DockerHub">>, <<"DockerHub", "LocalGit">>}

CallCheckDefaults ==
    \E image \in Images, sources \in DefaultTimeoutSourceLists :
        \E runs \in [1..Len(sources) -> SlowRuns] :
            /\ nchecks < MaxChecks
            /\ CheckFanOut(image, sources, runs, << >>, << >>)

DefaultsNext ==
    \/ CallCheckDefaults
    \/ CheckPark
    \/ CheckParkTimerLate
    \/ CheckWake
    \/ CheckOverallTimeout
    \/ CheckAllFailed
    \/ CheckComplete

SpecDefaults == StateInit /\ [][DefaultsNext]_vars

-----------------------------------------------------------------------------
(* Repeated checks of images whose sources answer quickly, so that later       *)
(* requests of any shape meet a cached entry                                   *)

QuickSourceLists == {<<"LocalGit">>, <<"DockerHub", "LocalGit">>}

CallCheckQuick ==
    /\ nchecks < MaxChecks
    /\ \E image \in Images, sources \in QuickSourceLists :
          CheckFanOut(image, sources,
                      [i \in 1..Len(sources) |-> [latency |-> 1000, outcome |-> "ok"]],
                      << >>, << >>)

CachedNext ==
    \/ CallCheckQuick
    \/ CallCheckHit
    \/ CallCheckEmpty
    \/ CheckPark
    \/ CheckWake
    \/ CheckComplete
    \/ CheckTick

SpecCached == StateInit /\ [][CachedNext]_vars

-----------------------------------------------------------------------------
(* Checks against sources that fail with every error their provider can build  *)

\* git_checker.rs: InvalidInput (20, 28), Io (42, 90), StepFailed (46), Parse (78)
GitErrorRuns ==
    {[latency |-> 0, outcome |-> "InvalidInput"], [latency |-> 20000, outcome |-> "ok"]}
    \cup {[latency |-> 1000, outcome |-> o] : o \in {"ok", "Io", "StepFailed", "Parse"}}

\* docker_hub.rs, github.rs: Http (client build), SourceTimeout and
\* SourceUnavailable (send), Parse (body, no tag); custom_api.rs adds InvalidInput
HttpErrorRuns ==
    {[latency |-> 0, outcome |-> "Http"], [latency |-> 20000, outcome |-> "ok"],
     [latency |-> 5000, outcome |-> "SourceTimeout"]}
    \cup {[latency |-> 1000, outcome |-> o] : o \in {"ok", "SourceUnavailable", "Parse"}}

ErrorRunsOf(kind) ==
    CASE kind = "LocalGit" -> GitErrorRuns
      [] kind = "CustomApi" -> HttpErrorRuns \cup {[latency |-> 0, outcome |-> "InvalidInput"]}
      [] OTHER -> HttpErrorRuns

ErrorSourceLists ==
    {<<"LocalGit">>, <<"DockerHub">>, <<"GithubRelease">>, <<"CustomApi">>,
     <<"LocalGit", "CustomApi">>}

CallCheckErrors ==
    \E sources \in ErrorSourceLists :
        \E runs \in {r \in [1..Len(sources) -> UNION {ErrorRunsOf(k) : k \in SourceKinds}] :
                        \A i \in 1..Len(sources) : r[i] \in ErrorRunsOf(sources[i])} :
            /\ nchecks < MaxChecks
            /\ CheckFanOut([repository |-> "nginx", tag |-> "1.0.0"], sources, runs, << >>, << >>)

ErrorsNext ==
    \/ CallCheckErrors
    \/ CheckPark
    \/ CheckParkTimerLate
    \/ CheckWake
    \/ CheckOverallTimeout
    \/ CheckAllFailed
    \/ CheckComplete

SpecErrors == StateInit /\ [][ErrorsNext]_vars

-----------------------------------------------------------------------------
(* select_recommended on every result list of up to MaxResults results *)

MaxResults == 3

ResultLists == UNION {[1..n -> SampleResults] : n \in 0..MaxResults}

CallSelect == \E results \in ResultLists : TakeResults(results)

SelectNext ==
    \/ CallSelect
    \/ SelectRecommended

SpecSelect == StateInit /\ [][SelectNext]_vars

-----------------------------------------------------------------------------
(* Update operations on one docker host, one after the other (the per-image    *)
(* update lock serialises them), with operation ids that a caller may reuse    *)

MaxUpdates == 2

UpdateOperationIds == {"op-1", "op-2"}

UpdateRunArgs == {<<"-d", "--name", "web">>}

\* the operator's deployment of the service before the first update
Deployed ==
    /\ upd = NoUpd
    /\ docker = EmptyMap
    /\ docker' = MapInsert(docker, "web", Container("running", ""))
    /\ UNCHANGED <<upd, updateFrame>>

CallUpdate ==
    /\ upd.n < MaxUpdates
    /\ \E op \in UpdateOperationIds, run_args \in UpdateRunArgs :
          UpdateBegin(op, [repository |-> "nginx", tag |-> "1.0.0"], run_args, "nginx:1.1.0")

UpdateNext ==
    \/ Deployed
    \/ CallUpdate
    \/ StepGitPull
    \/ StepDockerBuild
    \/ StepBackup
    \/ StepDockerRun
    \/ StepHealthCheck
    \/ StepRollback
    \/ StepCleanup

SpecUpdate == StateInit /\ [][UpdateNext]_vars

\* one update_image_and_restart call with any run_args of the operator
MaxArgs == 3

ArgTokens == {"-d", "--name", "web", "--name=web"}

RunArgLists == UNION {[1..n -> ArgTokens] : n \in 0..MaxArgs}

CallUpdateArgs ==
    /\ upd.st = "idle"
    /\ \E op \in UpdateOperationIds, run_args \in RunArgLists :
          UpdateBegin(op, [repository |-> "nginx", tag |-> "1.0.0"], run_args, "nginx:1.1.0")

NamesNext ==
    \/ Deployed
    \/ CallUpdateArgs
    \/ StepGitPull
    \/ StepDockerBuild
    \/ StepBackup
    \/ StepDockerRun
    \/ StepHealthCheck
    \/ StepRollback
    \/ StepCleanup

SpecNames == StateInit /\ [][NamesNext]_vars

-----------------------------------------------------------------------------
(* wait_until_healthy against a container whose state the environment chooses *)

MaxHealthChecks == 1
MaxWaitSeconds == 4

InspectLatencies == {0, 100, 3000}

\* timeouts.health_check_ms: every half second up to MaxWaitSeconds
HealthCheckMs == {500 * k : k \in 0..(2 * MaxWaitSeconds + 1)}

\* what start.elapsed() reports of the time before the first deadline test,
\* in nanoseconds: nothing, or the few instructions in between
ElapsedResidues == {0, 100}

Observations == {"created", "running", "missing", "err"}

CallWaitUntilHealthy ==
    /\ hc.n < MaxHealthChecks
    /\ \E health_check_ms \in HealthCheckMs, residue_ns \in ElapsedResidues :
          HealthBegin(health_check_ms, residue_ns)

PollInspect == \E latency \in InspectLatencies, observed \in Observations : HealthInspect(latency, observed)

HealthNext ==
    \/ CallWaitUntilHealthy
    \/ HealthDeadline
    \/ PollInspect
    \/ HealthSleep

SpecHealth == StateInit /\ [][HealthNext]_vars

-----------------------------------------------------------------------------
(* filter_and_sort_tags on every short tag listing *)

MaxTags == 3

TagNames == {"1.21.0", "latest", "1.22.0"}

\* last_updated strings "10", "2", "9" (character codes of the digits)
TagDates == {<<1, 0>>, <<2>>, <<9>>}

TagSet == [name : TagNames, last_updated : TagDates]

TagLists == UNION {[1..n -> TagSet] : n \in 0..MaxTags}

TagRegexes == {<< >>, <<"digits">>, <<"nothing">>, <<"broken">>}

CallFetchTags == \E tag_regex \in TagRegexes, tags \in TagLists : TakeTags(tag_regex, tags)

TagsNext ==
    \/ CallFetchTags
    \/ SelectTag

SpecTags == StateInit /\ [][TagsNext]_vars

-----------------------------------------------------------------------------
(* execute_process_with_timeout on processes of every short running time *)

MaxProcs == 2

ProcTimeouts == {0, 30, 40, 200}

ProcRunTimes == {0, 10, 30, 40, 50, 2000}

ProcExitCodes == {0, 1}

CallExecuteProcess ==
    /\ pr.n < MaxProcs
    /\ \E timeout_ms \in ProcTimeouts, spawned \in BOOLEAN, runs_ms \in ProcRunTimes,
          exit_code \in ProcExitCodes :
          /\ ~spawned => (runs_ms = 0 /\ exit_code = 0)
          /\ ProcSpawn(timeout_ms, spawned, runs_ms, exit_code)

ProcNext ==
    \/ CallExecuteProcess
    \/ ProcPoll

SpecProc == StateInit /\ [][ProcNext]_vars

-----------------------------------------------------------------------------
(* Custom API fetches for every configuration and every reply                  *)

MaxHeaders == 2

Endpoints ==
    {"https://api.example/v", "http://api.example/v", "ftp://api.example/v",
     "HTTPS://api.example/v", "api.example/v", "file:///etc/version"}

Methods == {"GET", "get", "Post", "PUT", "", "GETS"}

HeaderKeys == {"X-Token", "x_id2", "bad key", "a:b", ""}

HeaderLists == UNION {[1..n -> HeaderKeys] : n \in 0..MaxHeaders}

OptionalFields(name) == {<< >>, <<name>>}

ApiConfigs ==
    {[endpoint |-> e, method |-> m, headers |-> h, version_field |-> "version",
      notes_field |-> nf, published_at_field |-> pf] :
        e \in Endpoints, m \in Methods, h \in HeaderLists,
        nf \in OptionalFields("notes"), pf \in OptionalFields("date")}

JsonString(v) == [kind |-> "string", v |-> v]

JsonObjects ==
    {[kind |-> "object", fields |-> f] :
        f \in {[n \in {"version", "notes", "date"} |-> JsonString(n \o "-1")],
               [n \in {"version"} |-> JsonString("1.2.0")],
               [n \in {"version", "notes"} |-> JsonString(n \o "-1")],
               [n \in {"notes", "date"} |-> JsonString(n \o "-1")],
               [n \in {"version"} |-> [kind |-> "number", v |-> "12"]],
               [n \in {} |-> JsonString("")]}}

ApiReplies ==
    {[kind |-> k, json |-> [kind |-> "invalid"]] : k \in {"timeout", "unreachable", "status"}}
    \cup {[kind |-> "body", json |-> j] :
             j \in JsonObjects \cup {[kind |-> "invalid"], [kind |-> "array"]}}

CallFetchCustomApi ==
    /\ api.st = "none"
    /\ \E config \in ApiConfigs, client_ok \in BOOLEAN : ApiCall(config, client_ok)

ReplyArrives ==
    /\ api.st = "headers"
    /\ \E reply \in ApiReplies : ApiSend(reply)

ApiNext ==
    \/ CallFetchCustomApi
    \/ ApiPrepare
    \/ ApiHeader
    \/ ReplyArrives
    \/ ApiRead

SpecApi == StateInit /\ [][ApiNext]_vars

-----------------------------------------------------------------------------
(* Claims about the update-lock table *)

LockTimeoutMs == Secs(LOCK_TIMEOUT_SECS)

\* the grants of key k that unlock_update has not released
Outstanding(k) == grants[k]

\* the outstanding grants of k whose lock is not stale at the current clock
LiveGrants(k) == {g \in grants[k] : ~IsExpired(g.at, LockTimeoutMs, now)}

\* C1 as stated: once try_lock_update(K, op1) has succeeded, no
\* try_lock_update(K, op2) issued before unlock_update(K) gets past the
\* conflict check, whatever the age of the lock.
C1_LaterTryLockAlwaysFails ==
    \A c \in Callers :
        pc[c] = "insert" => Outstanding(arg[c].image_key) = {}

\* C1 amended: while the lock taken by try_lock_update(K, op1) is not stale
\* (0 <= now - locked_at <= 900 s) and unlock_update(K) has not been called,
\* every try_lock_update(K, op2) returns the conflict error naming op1 and
\* leaves the table unchanged (same operation id, same locked_at); when no
\* grant of K is outstanding (never locked, or unlock_update(K) was called)
\* the call passes the check, and the insert stores the caller's lock.
C1_ConflictWhileLockFresh ==
    [][\A c \in Callers :
         LET k == arg[c].image_key IN
         /\ (pc[c] = "check" /\ pc'[c] # "check" /\ LiveGrants(k) # {})
               => /\ pc'[c] = "idle"
                  /\ ~lock_result'.ok
                  /\ lock_result'.caller = c
                  /\ lock_result'.image_key = k
                  /\ \A g \in LiveGrants(k) : lock_result'.holder = g.operation_id
                  /\ update_locks' = update_locks
                  /\ grants' = grants
         /\ (pc[c] = "check" /\ pc'[c] # "check" /\ Outstanding(k) = {})
               => pc'[c] = "insert"
         /\ (pc[c] = "insert" /\ pc'[c] # "insert")
               => /\ lock_result' = [caller |-> c, image_key |-> k, ok |-> TRUE, holder |-> ""]
                  /\ k \in DOMAIN update_locks'
                  /\ update_locks'[k].operation_id = arg[c].operation_id
                  /\ update_locks'[k].locked_at = now
      ]_vars

\* C1 witness: caller 2's try_lock_update(K) has just failed naming op-1 while
\* op-1's lock on K is still in the table
C1_Witness ==
    \E k \in ImageKeys :
        /\ lock_result = [caller |-> 2, image_key |-> k, ok |-> FALSE, holder |-> OperationId(1)]
        /\ k \in DOMAIN update_locks
        /\ update_locks[k].operation_id = OperationId(1)
        /\ \E g \in grants[k] : g.caller = 1

\* C2: the critical sections of try_lock_update never overlap, a caller that
\* passed the conflict check still finds no live lock for its key when it
\* inserts, and at most one non-stale granted lock exists per image key: of
\* the callers racing for a free key exactly one is granted.
C2_CheckThenInsertAtomic ==
    /\ Cardinality({c \in Callers : pc[c] # "idle"}) <= 1
    /\ \A c \in Callers :
           pc[c] = "insert" => ~HasLiveLock(update_locks, arg[c].image_key, now)
    /\ \A k \in ImageKeys :
           /\ Cardinality(LiveGrants(k)) <= 1
           /\ \A g \in LiveGrants(k) :
                  /\ k \in DOMAIN update_locks
                  /\ update_locks[k].operation_id = g.operation_id
                  /\ update_locks[k].locked_at = g.at

\* C2 witness: both callers raced for the same key; caller 1 holds it and
\* caller 2 was refused with caller 1 named as the holder
C2_Witness ==
    \E k \in ImageKeys :
        /\ LiveGrants(k) = {[caller |-> 1, operation_id |-> OperationId(1), at |-> now]}
        /\ lock_result = [caller |-> 2, image_key |-> k, ok |-> FALSE, holder |-> OperationId(1)]

\* the callers whose update pipeline for key k is in progress
Updating(k) == {c \in Callers : phase[c].st = "updating" /\ phase[c].image_key = k}

\* C3 as stated: under the discipline no two update pipelines for the same
\* image key are in progress at the same time, whatever the pipelines' duration.
C3_NoTwoPipelinesPerKey ==
    \A k \in ImageKeys : Cardinality(Updating(k)) <= 1

\* C3 amended: under the discipline, as long as every caller has called
\* unlock_update(K) no later than 900 s after its try_lock_update(K) succeeded
\* (no lock of K was kept until it went stale), no two update pipelines for K
\* are in progress at the same time.
C3_NoOverlapWhileLocksFresh ==
    \A k \in ImageKeys : ~overran[k] => Cardinality(Updating(k)) <= 1

\* C3 witness: a pipeline for K is in progress, its lock is still fresh, and
\* another caller's acquire for K has just been refused
C3_Witness ==
    \E k \in ImageKeys :
        /\ Updating(k) = {1}
        /\ now > phase[1].since
        /\ ~IsExpired(phase[1].since, LockTimeoutMs, now)
        /\ lock_result = [caller |-> 2, image_key |-> k, ok |-> FALSE, holder |-> OperationId(1)]
        /\ phase[2].st = "none"
        /\ ~overran[k]

-----------------------------------------------------------------------------
(* Claims about the check cache *)

CacheTtlMs == Secs(CHECK_CACHE_TTL_SECONDS)

\* C4: get_cached_check(K, ttl) returns the response stored by the last
\* cache_check(K, .), unchanged, exactly when now - cached_at <= ttl, and
\* nothing otherwise; it never modifies the cache (an expired entry stays).
C4_GetCachedIffWithinTtl ==
    [][got' # got =>
         LET k == got'.image_key IN
         /\ check_cache' = check_cache
         /\ got'.value =
              IF k \in DOMAIN check_cache /\ now - check_cache[k].cached_at <= got'.ttl
              THEN <<check_cache[k].response>>
              ELSE << >>
      ]_vars

\* C4 witness: with the 30 s TTL an entry is returned unchanged 29 s after it
\* was written
C4_Witness ==
    \E k \in DOMAIN check_cache :
        /\ now - check_cache[k].cached_at = Secs(29)
        /\ check_cache[k].cached_at > 0
        /\ got.image_key = k
        /\ got.ttl = CacheTtlMs
        /\ got.value = <<check_cache[k].response>>

-----------------------------------------------------------------------------
(* Claims about check_image_version *)

\* the image key and the source list of the call that a step starts
CallKeyOf(c, o) == IF c.st # "idle" THEN c.image_key ELSE o.image_key
CallSourcesOf(c, o) == IF c.st # "idle" THEN c.sources ELSE o.sources

\* the cache holds an entry of age <= 30 s for key k
FreshEntry(k) ==
    k \in DOMAIN check_cache /\ now - check_cache[k].cached_at <= CacheTtlMs

\* C6: a call whose image key has a cache entry of age <= 30 s returns exactly
\* the cached response, creates and polls no provider, takes no time, and
\* leaves the whole cache (the entry's cached_at included) unchanged.
C6_CacheHitBypassesProviders ==
    [][nchecks' # nchecks =>
         LET k == CallKeyOf(chk', outcome') IN
         FreshEntry(k) =>
            /\ outcome'.kind = "hit"
            /\ outcome'.response = <<check_cache[k].response>>
            /\ chk' = NoCheck
            /\ check_cache' = check_cache
            /\ now' = now
      ]_vars

\* C6 witness: a hit on an entry that is exactly 30 s old, for a request whose
\* source list differs from the one that produced the entry
C6_Witness ==
    /\ outcome.kind = "hit"
    /\ outcome.image_key \in DOMAIN check_cache
    /\ now - check_cache[outcome.image_key].cached_at = CacheTtlMs
    /\ outcome.response = <<check_cache[outcome.image_key].response>>
    /\ Len(outcome.sources) # Len(check_cache[outcome.image_key].response.results)

\* C7: a call with an empty source list and no cache entry of age <= 30 s for
\* its key returns InvalidInput, creates no provider and leaves the cache
\* unchanged.
C7_EmptySourcesRejected ==
    [][nchecks' # nchecks =>
         LET k == CallKeyOf(chk', outcome') IN
         (CallSourcesOf(chk', outcome') = << >> /\ ~FreshEntry(k)) =>
            /\ outcome'.kind = "error"
            /\ outcome'.error = "InvalidInput"
            /\ outcome'.response = << >>
            /\ chk' = NoCheck
            /\ check_cache' = check_cache
            /\ now' = now
      ]_vars

\* C7 witness: InvalidInput for an empty list while an expired entry of the
\* same key is still in the cache
C7_Witness ==
    /\ outcome.kind = "error"
    /\ outcome.error = "InvalidInput"
    /\ outcome.sources = << >>
    /\ outcome.image_key \in DOMAIN check_cache
    /\ now - check_cache[outcome.image_key].cached_at > CacheTtlMs

\* a fan-out has returned
FanOutReturned == outcome.kind \in {"fresh", "error"} /\ outcome.sources # << >>

\* source i of the returned call answers "ok" before its per-source timeout
\* and before its provider's own client timeout
SucceedsInTime(i) ==
    /\ outcome.runs[i].outcome = "ok"
    /\ outcome.runs[i].latency < outcome.source_timeout
    /\ outcome.runs[i].latency < PROVIDER_TIMEOUT_MS

\* C8: with the per-source timeout below the overall timeout, the failure or
\* timeout of a source is never raised to the caller and never changes another
\* source's outcome: the only hard errors of a fan-out are the overall
\* SourceTimeout and NoValidSourceResult, and a source that answers ok within
\* its timeout is reported ok in a returned CheckResponse whatever the other
\* sources do.
C8_SourceFailuresStaySoft ==
    (FanOutReturned /\ outcome.source_timeout < outcome.overall_timeout) =>
        /\ outcome.kind = "error" => outcome.error \in {"SourceTimeout", "NoValidSourceResult"}
        /\ \A i \in 1..Len(outcome.sources) :
              SucceedsInTime(i) =>
                 /\ outcome.kind = "fresh"
                 /\ outcome.results[i].ok
                 /\ outcome.results[i].source = outcome.sources[i]

\* C9: every fan-out returns no later than the overall timeout after it
\* started, and a fan-out that has not produced all its results by then
\* returns SourceTimeout.
C9_ReturnsWithinOverallTimeout ==
    FanOutReturned =>
        /\ outcome.returned_at - outcome.called_at <= outcome.overall_timeout
        /\ (outcome.error = "SourceTimeout"
               => outcome.returned_at - outcome.called_at = outcome.overall_timeout)

\* C10: when the fan-out completes with every source result !ok, the call
\* returns NoValidSourceResult with no response, and the cache is left as it
\* was: no entry is created or overwritten.
C10_AllFailedIsHardError ==
    [][(chk.st = "ready" /\ chk'.st = "idle") =>
         LET results == outcome'.results IN
         (/\ Len(results) = Len(chk.sources)
          /\ \A i \in 1..Len(results) : ~results[i].ok) =>
            /\ outcome'.kind = "error"
            /\ outcome'.error = "NoValidSourceResult"
            /\ outcome'.response = << >>
            /\ check_cache' = check_cache
      ]_vars

\* C10 witness: NoValidSourceResult for two failed sources, one of them cut off
\* by the per-source timer, while an expired entry of the key stays in the cache
C10_Witness ==
    /\ outcome.kind = "error"
    /\ outcome.error = "NoValidSourceResult"
    /\ Len(outcome.results) = 2
    /\ \E i \in 1..2 : outcome.results[i].error_message = <<"Source check timeout">>
    /\ outcome.image_key \in DOMAIN check_cache
    /\ now - check_cache[outcome.image_key].cached_at > CacheTtlMs

-----------------------------------------------------------------------------
(* Claims about select_recommended *)

\* the results of list rs rearranged by the permutation p of its indices
\* the priority the recommendation is claimed to follow, highest first
ClaimedPriority == <<"LocalGit", "GithubRelease", "DockerHub", "CustomApi">>

Permuted(rs, p) == [i \in 1..Len(rs) |-> rs[p[i]]]

OkIndices(rs) == {i \in 1..Len(rs) : rs[i].ok}

\* the position in the priority order of the best source kind with an ok result
BestRank(rs) ==
    Min({p \in 1..Len(ClaimedPriority) : \E i \in OkIndices(rs) : rs[i].source = ClaimedPriority[p]})

\* the recommended candidate is that of an ok result of the best-ranked kind,
\* and there is none exactly when no result is ok
FirstOkInPriorityOrder(rs, recommended) ==
    IF OkIndices(rs) = {} THEN recommended = << >>
    ELSE /\ recommended # << >>
         /\ recommended[1].source = ClaimedPriority[BestRank(rs)]
         /\ \E i \in OkIndices(rs) : rs[i].latest = recommended

\* no two ok results of the list come from the same source kind
OneOkPerKind(rs) ==
    \A i, j \in OkIndices(rs) : rs[i].source = rs[j].source => i = j

\* C11 as stated: the recommended candidate is that of the first ok result in
\* the order LocalGit, GithubRelease, DockerHub, CustomApi, and it is the same
\* for every permutation of the results.
C11_SameForEveryPermutation ==
    sel.st = "selected" =>
        /\ FirstOkInPriorityOrder(sel.results, sel.recommended)
        /\ \A p \in Permutations(1..Len(sel.results)) :
              select_recommended(Permuted(sel.results, p)) = sel.recommended

\* C11 amended: the recommended candidate is that of an ok result of the
\* best-ranked kind in the order LocalGit, GithubRelease, DockerHub, CustomApi
\* (none when no result is ok); among several ok results of that kind the
\* first in list order is taken; when no two ok results share a source kind
\* the choice is the same for every permutation of the results.
C11_PriorityChoice ==
    sel.st = "selected" =>
        LET rs == sel.results
            best == {i \in OkIndices(rs) : rs[i].source = ClaimedPriority[BestRank(rs)]}
        IN  /\ FirstOkInPriorityOrder(rs, sel.recommended)
            /\ OkIndices(rs) # {} => sel.recommended = rs[Min(best)].latest
            /\ OneOkPerKind(rs) =>
                 \A p \in Permutations(1..Len(rs)) :
                    select_recommended(Permuted(rs, p)) = sel.recommended

\* C11 witness: ok results from DockerHub ("1.0.0") and LocalGit ("1.1.0"), in
\* that order: LocalGit's candidate is chosen
C11_Witness ==
    /\ sel.st = "selected"
    /\ sel.results = <<SampleOk("DockerHub", "1.0.0"), SampleOk("LocalGit", "1.1.0")>>
    /\ sel.recommended = <<[source |-> "LocalGit", version |-> "1.1.0"]>>

-----------------------------------------------------------------------------
(* Claims about the response of check_image_version *)

\* the CheckResponse values the program holds: the one just returned and the
\* cached ones
HeldResponses ==
    {outcome.response[i] : i \in 1..Len(outcome.response)}
       \cup {check_cache[k].response : k \in DOMAIN check_cache}

\* C12: in every CheckResponse, has_update is true exactly when a
\* recommendation exists and its version string differs from the request's
\* current tag (plain string inequality), and false otherwise; the response
\* carries that tag as current_version.
C12_HasUpdateIsStringInequality ==
    \A r \in HeldResponses :
        \E image \in Images :
            /\ r.image_key = build_image_key(image.repository, image.tag)
            /\ r.current_version = <<image.tag>>
            /\ r.has_update = (r.recommended # << >> /\ r.recommended[1].version # image.tag)

\* C12 witness: a fresh response whose recommendation ("1.0.0") is older than
\* the current tag ("1.1.0") still reports has_update, and a cached response
\* whose recommendation equals the tag does not
C12_Witness ==
    /\ outcome.kind = "fresh"
    /\ outcome.response[1].current_version = <<"1.1.0">>
    /\ outcome.response[1].recommended # << >>
    /\ outcome.response[1].recommended[1].version = "1.0.0"
    /\ outcome.response[1].has_update
    /\ \E k \in DOMAIN check_cache :
          /\ ~check_cache[k].response.has_update
          /\ check_cache[k].response.recommended # << >>
          /\ <<check_cache[k].response.recommended[1].version>> = check_cache[k].response.current_version

\* C13: a check that returns a freshly computed CheckResponse has stored
\* exactly that response under its image key when it returns, also when some
\* sources failed; a following check of the same image key within 30 s
\* returns the identical response (failed results and checked_at_ms included).
C13_FreshResponseCachedAndReturnedAgain ==
    [][/\ (chk.st = "ready" /\ chk'.st = "idle" /\ outcome'.kind = "fresh") =>
             /\ chk.image_key \in DOMAIN check_cache'
             /\ <<check_cache'[chk.image_key].response>> = outcome'.response
             /\ check_cache'[chk.image_key].cached_at = now'
       /\ (/\ nchecks' # nchecks
           /\ outcome.kind \in {"fresh", "hit"}
           /\ CallKeyOf(chk', outcome') = outcome.image_key
           /\ now - outcome.response[1].checked_at_ms <= CacheTtlMs) =>
             /\ outcome'.kind = "hit"
             /\ outcome'.response = outcome.response
      ]_vars

\* C13 witness: 30 s after a fresh response with one failed and one ok source,
\* a check of the same key has returned that response with its old checked_at_ms
C13_Witness ==
    /\ outcome.kind = "hit"
    /\ \E i, j \in 1..Len(outcome.response[1].results) :
          /\ ~outcome.response[1].results[i].ok
          /\ outcome.response[1].results[j].ok
    /\ now - outcome.response[1].checked_at_ms = CacheTtlMs
    /\ check_cache[outcome.image_key].response = outcome.response[1]

-----------------------------------------------------------------------------
(* Claims about the update pipeline *)

UpdateSteps == <<"git_pull", "docker_build", "backup_container", "docker_run", "health_check">>

\* the pipeline step a command belongs to ("" for rollback and cleanup commands)
StepOf(c) ==
    CASE c.cmd \in {"git_pull", "docker_build", "docker_run", "health_check"} -> c.cmd
      [] c.cmd \in {"inspect", "rename_backup"} -> "backup_container"
      [] OTHER -> ""

\* the steps attempted so far, in execution order
AttemptedSteps ==
    LET n == Cardinality({StepOf(upd.cmds[i]) : i \in 1..Len(upd.cmds)} \ {""})
    IN  [i \in 1..n |-> UpdateSteps[i]]

LoggedSteps(logs) == [i \in 1..Len(logs) |-> logs[i].step]

Returned_(u) == u.st = "done"

\* C14: for every outcome of every step (exit status 0, non-zero exit status,
\* command not launched) the operation yields an UpdateResponse whose
\* step_logs hold exactly one entry per attempted step, in execution order, a
\* prefix of git_pull, docker_build, backup_container, docker_run, health_check.
C14_OneLogPerAttemptedStep ==
    /\ \A i \in 1..Len(upd.logs) : upd.logs[i].step = UpdateSteps[i]
    /\ Returned_(upd) =>
          /\ upd.result = "ok"
          /\ upd.response # << >>
          /\ LoggedSteps(upd.response[1].step_logs) = AttemptedSteps

\* command i of the run is a failed Pull, Build or Backup
EarlyFailure(i) ==
    LET c == upd.cmds[i]
    IN  \/ c.cmd \in {"git_pull", "docker_build", "rename_backup"} /\ c.outcome # "ok"
        \/ c.cmd = "inspect" /\ c.outcome = "err"

\* C15: when the Pull, Build or Backup step fails the pipeline stops there: the
\* failing command is the last one issued (no later step, no rollback, no
\* cleanup), a returned response carries attempted = false and restored =
\* false, and the docker host is as it was when the operation started; after a
\* Pull or Build failure no container command has been issued.
C15_EarlyFailureStopsWithoutRollback ==
    \A i \in 1..Len(upd.cmds) :
        EarlyFailure(i) =>
            /\ i = Len(upd.cmds)
            /\ upd.st = "done"
            /\ upd.result = "ok" =>
                  /\ ~upd.response[1].rollback.attempted
                  /\ ~upd.response[1].rollback.restored
                  /\ ~upd.response[1].success
            /\ docker = upd.before
            /\ upd.cmds[i].cmd \in {"git_pull", "docker_build"} =>
                  \A j \in 1..i : upd.cmds[j].cmd \in {"git_pull", "docker_build"}

\* C15 witness: the rename of an existing container failed; the response
\* reports no rollback and the container is still there under its name
C15_Witness ==
    /\ upd.st = "done"
    /\ upd.result = "ok"
    /\ upd.cmds[Len(upd.cmds)] = Cmd("rename_backup", "fail")
    /\ Exists(docker, upd.container_name)
    /\ docker = upd.before
    /\ upd.response[1].rollback = [attempted |-> FALSE, restored |-> FALSE,
                                   backup_container |-> << >>, error |-> << >>]

RunFailed == \E i \in 1..Len(upd.cmds) : upd.cmds[i].cmd = "docker_run" /\ upd.cmds[i].outcome # "ok"

HealthFailed == \E i \in 1..Len(upd.cmds) : upd.cmds[i] = Cmd("health_check", "fail")

RollbackRan == \E i \in 1..Len(upd.cmds) : upd.cmds[i].cmd \in {"rm_new", "rename_restore", "start"}

\* C16: in every run of the pipeline rollback is invoked, and the response
\* reports rollback.attempted, exactly when the Run step or the HealthCheck
\* step failed; after a failed Run the next command is rollback's first one
\* and no health check is made.
C16_RollbackIffRunOrHealthFailed ==
    /\ Returned_(upd) =>
          /\ RollbackRan <=> (RunFailed \/ HealthFailed)
          /\ upd.result = "ok" => (upd.response[1].rollback.attempted <=> RollbackRan)
          /\ upd.result = "err" => ~RollbackRan
    /\ \A i \in 1..Len(upd.cmds) :
          (upd.cmds[i].cmd = "docker_run" /\ upd.cmds[i].outcome # "ok") =>
              /\ i < Len(upd.cmds) => upd.cmds[i + 1].cmd = "rm_new"
              /\ \A j \in 1..Len(upd.cmds) : upd.cmds[j].cmd # "health_check"

\* C16 witness: docker run could not be launched; rollback ran at once and the
\* response reports it
C16_Witness ==
    /\ upd.st = "done"
    /\ \E i \in 1..Len(upd.cmds) : upd.cmds[i] = Cmd("docker_run", "err")
    /\ upd.response[1].rollback.attempted
    /\ ~HealthFailed

\* the Backup step was skipped and no container had the target name
BackupSkippedNoContainer ==
    /\ \E i \in 1..Len(upd.logs) : upd.logs[i].step = "backup_container" /\ upd.logs[i].skipped
    /\ ~Exists(upd.before, upd.container_name)

\* C17: when the Backup step was skipped because no container with the target
\* name existed, a rollback after a later Run or HealthCheck failure reports
\* attempted = true and restored = false and issues no docker start.
C17_SkippedBackupNeverRestored ==
    (Returned_(upd) /\ BackupSkippedNoContainer /\ RollbackRan) =>
        /\ upd.response[1].rollback.attempted
        /\ ~upd.response[1].rollback.restored
        /\ \A i \in 1..Len(upd.cmds) : upd.cmds[i].cmd # "start"

\* C18: in every UpdateResponse success is true exactly when every step log
\* is ok or skipped, and final_image_ref is present exactly when success is
\* true, and is then the workflow's new image tag.
C18_SuccessIffAllLogsOkOrSkipped ==
    (Returned_(upd) /\ upd.result = "ok") =>
        LET r == upd.response[1]
        IN  /\ r.success <=> \A i \in 1..Len(r.step_logs) :
                                r.step_logs[i].ok \/ r.step_logs[i].skipped
            /\ r.final_image_ref # << >> <=> r.success
            /\ r.success => r.final_image_ref = <<upd.new_image_tag>>

\* C18 witness: a successful update whose Backup step was skipped
C18_Witness ==
    /\ upd.st = "done"
    /\ upd.result = "ok"
    /\ upd.response[1].success
    /\ Len(upd.response[1].step_logs) = 5
    /\ upd.response[1].step_logs[3] = StepLog("backup_container", TRUE, TRUE)
    /\ upd.response[1].final_image_ref = <<"nginx:1.1.0">>

\* C19: when an update ends with success = true after a Backup step that was
\* not skipped, no container with the backup name exists once the response is
\* returned.
C19_BackupRemovedOnSuccess ==
    (/\ Returned_(upd)
     /\ upd.result = "ok"
     /\ upd.response[1].success
     /\ \E i \in 1..Len(upd.logs) : upd.logs[i] = StepLog("backup_container", TRUE, FALSE))
        => ~Exists(docker, upd.backup_name)

-----------------------------------------------------------------------------
(* Claims about wait_until_healthy *)

LastSeen == hc.seen[Len(hc.seen)]

\* C20: wait_until_healthy returns success at the first poll that observes
\* "running" (for the observations created, created, running with a wait of at
\* least 3 s that is the third poll), returns StepFailed as soon as an inspect
\* call errors, returns StepFailed otherwise only when the maximum wait has
\* elapsed, and has returned no later than about one poll interval (taken here
\* as up to two) after the maximum wait.
C20_HealthyOrFailedWithinMaxWait ==
    hc.st = "done" =>
        /\ hc.result \in {"ok", "StepFailed"}
        /\ hc.result = "ok" <=> (Len(hc.seen) > 0 /\ LastSeen = "running")
        /\ \A i \in 1..(Len(hc.seen) - 1) : hc.seen[i] = "created"
        /\ (hc.result = "StepFailed" /\ (Len(hc.seen) = 0 \/ LastSeen = "created")) =>
              \/ hc.returned_at - hc.started_at > Secs(hc.max_wait_seconds)
              \/ /\ hc.returned_at - hc.started_at = Secs(hc.max_wait_seconds)
                 /\ hc.residue_ns > 0
        /\ (/\ hc.max_wait_seconds >= 3
            /\ Len(hc.seen) >= 2
            /\ hc.seen[1] = "created"
            /\ hc.seen[2] = "created") => Len(hc.seen) >= 3
        /\ hc.returned_at - hc.started_at <= Secs(hc.max_wait_seconds) + 2 * check_interval_ms

-----------------------------------------------------------------------------
(* Claims about the registry tag selection *)

\* the tags of the listing that match the configured expression (all of them
\* when none is configured; no name matches an expression that does not compile)
PassingTags ==
    {i \in 1..Len(tg.tags) :
        tg.tag_regex = << >> \/ tg.tags[i].name \in Patterns[tg.tag_regex[1]].matches}

\* the first tag in listing order among the passing tags of maximal last_updated
NewestPassing ==
    CHOOSE i \in PassingTags :
        \A j \in PassingTags :
            /\ StrCmp(tg.tags[j].last_updated, tg.tags[i].last_updated) <= 0
            /\ j < i => StrCmp(tg.tags[j].last_updated, tg.tags[i].last_updated) < 0

\* C21: the selected tag is the first in listing order among the tags that
\* match the configured regular expression (all tags when none is configured)
\* and have the maximal last-modified string; the provider fails with Parse
\* exactly when no tag matches; a tag that does not match is never selected.
C21_NewestMatchingTagSelected ==
    tg.st = "done" =>
        /\ tg.result = "Parse" <=> PassingTags = {}
        /\ tg.result = "ok" =>
              /\ PassingTags # {}
              /\ tg.version = tg.tags[NewestPassing].name

-----------------------------------------------------------------------------
(* Claims about execute_process_with_timeout *)

\* C22: execute_process_with_timeout returns an error when the spawned
\* process has not exited within timeout_ms, and returns a capture with the
\* process's exit code only when the process exited within the timeout.
C22_TimeoutIsAnError ==
    (pr.st = "done" /\ pr.n > 0) =>
        /\ pr.runs_ms > pr.timeout_ms => pr.result = "Err"
        /\ pr.result = "Ok" =>
              /\ pr.runs_ms <= pr.timeout_ms
              /\ pr.capture_code = pr.exit_code

-----------------------------------------------------------------------------
(* Claims about stale-lock reclaim and unlock_update *)

\* the lock is older than 15 minutes at the current clock
Stale(lock) == now - lock.locked_at > 900 * 1000

\* C23: the sweep of every try_lock_update call leaves exactly the locks, of
\* any key, whose age is at most 900 s, and the table stays so when the call
\* then fails; a call fails only on a lock of its key that is at most 900 s
\* old, otherwise it stores the caller's lock in place of whatever was there;
\* no step of try_lock_update removes or changes a lock that is at most 900 s
\* old.
C23_SweepRemovesExactlyStaleLocks ==
    [][\A c \in Callers :
         LET k == arg[c].image_key IN
         /\ (pc[c] = "sweep" /\ pc'[c] = "check")
               => /\ DOMAIN update_locks' =
                        {x \in DOMAIN update_locks : ~Stale(update_locks[x])}
                  /\ \A x \in DOMAIN update_locks' : update_locks'[x] = update_locks[x]
         /\ (pc[c] = "check" /\ pc'[c] = "idle")
               => /\ ~lock_result'.ok
                  /\ k \in DOMAIN update_locks
                  /\ ~Stale(update_locks[k])
                  /\ update_locks' = update_locks
         /\ (pc[c] = "check" /\ pc'[c] = "insert")
               => (k \in DOMAIN update_locks => Stale(update_locks[k]))
         /\ (pc[c] = "insert" /\ pc'[c] = "idle")
               => /\ lock_result'.ok
                  /\ update_locks'[k] = [operation_id |-> arg[c].operation_id,
                                         image_key |-> k, locked_at |-> now]
         /\ (pc[c] # pc'[c])
               => \A x \in DOMAIN update_locks :
                      ~Stale(update_locks[x]) =>
                          /\ x \in DOMAIN update_locks'
                          /\ update_locks'[x] = update_locks[x]
      ]_vars

\* C23 witness: a try_lock_update call that failed on the fresh lock of its own
\* key has swept the stale lock of another key (that key was locked, never
\* unlocked, and is no longer in the table)
C23_Witness ==
    /\ ~lock_result.ok
    /\ lock_result.image_key \in DOMAIN update_locks
    /\ \E k \in ImageKeys \ {lock_result.image_key} :
          /\ k \notin DOMAIN update_locks
          /\ grants[k] # {}
          /\ \A g \in grants[k] : now - g.at > 900 * 1000

\* C24: unlock_update(K) removes the lock of K whichever operation holds it,
\* changes nothing when K has no lock, and leaves the locks of all other
\* keys and the whole check cache unchanged.
C24_UnlockRemovesOnlyItsKey ==
    [][unlocked' # unlocked =>
         LET k == unlocked'.image_key IN
         /\ DOMAIN update_locks' = (DOMAIN update_locks) \ {k}
         /\ \A x \in DOMAIN update_locks' : update_locks'[x] = update_locks[x]
         /\ k \notin DOMAIN update_locks => update_locks' = update_locks
         /\ check_cache' = check_cache
      ]_vars

\* C24 witness: after caller 2's try_lock_update(K, op-2) succeeded, caller 1
\* has called unlock_update(K) and removed the lock held by op-2
C24_Witness ==
    /\ unlocked.caller = 1
    /\ unlocked.removed = "op-2"
    /\ lock_result = [caller |-> 2, image_key |-> unlocked.image_key, ok |-> TRUE, holder |-> ""]
    /\ unlocked.image_key \notin DOMAIN update_locks

-----------------------------------------------------------------------------
(* Claims about the results of a freshly computed response *)

\* C25: every freshly computed CheckResponse has exactly one result per
\* configured source, in the order of the request's source list and with the
\* kind of the corresponding source; in each result latest is present exactly
\* when ok is true, and error_code and error_message are present exactly when
\* ok is false.
C25_OneResultPerSourceInOrder ==
    outcome.kind = "fresh" =>
        LET results == outcome.response[1].results IN
        /\ Len(results) = Len(outcome.sources)
        /\ \A i \in 1..Len(results) :
              /\ results[i].source = outcome.sources[i]
              /\ results[i].latest # << >> <=> results[i].ok
              /\ results[i].error_code # << >> <=> ~results[i].ok
              /\ results[i].error_message # << >> <=> ~results[i].ok

\* C25 witness: a fresh response for the sources (CustomApi, GithubRelease)
\* whose first result failed and whose second is ok
C25_Witness ==
    /\ outcome.kind = "fresh"
    /\ outcome.sources = <<"CustomApi", "GithubRelease">>
    /\ Len(outcome.response[1].results) = 2
    /\ ~outcome.response[1].results[1].ok
    /\ outcome.response[1].results[1].source = "CustomApi"
    /\ outcome.response[1].results[2].ok
    /\ outcome.response[1].results[2].source = "GithubRelease"

-----------------------------------------------------------------------------
(* Claims about the per-source timeout of a request without overrides *)

\* the time a source of the kind is claimed to be given
ClaimedSourceLimit(kind) == IF kind = "LocalGit" THEN 30000 ELSE 8000

TimedOut(result) == ~result.ok /\ result.error_code = <<"VERSION_SOURCE_TIMEOUT">>

\* C26: in a check without timeout overrides that yields its results, a
\* source whose fetch needs at least its provider timeout (30000 ms for the
\* local repository, 8000 ms for every other kind) is recorded as timed out,
\* and a local-repository fetch that succeeds in less than 30000 ms is
\* recorded as ok.
C26_SourcesRacedAgainstProviderTimeout ==
    (outcome.sources # << >> /\ outcome.results # << >>) =>
        \A i \in 1..Len(outcome.sources) :
            LET kind == outcome.sources[i]
                run == outcome.runs[i]
            IN  /\ run.latency >= ClaimedSourceLimit(kind) => TimedOut(outcome.results[i])
                /\ (kind = "LocalGit" /\ run.outcome = "ok" /\ run.latency < ClaimedSourceLimit(kind))
                      => outcome.results[i].ok

-----------------------------------------------------------------------------
(* Claims about the order of the pipeline's steps.                             *)

\* C27: the pipeline runs its steps in the strict order git_pull,
\* docker_build, backup_container, docker_run, health_check: whenever a step
\* issues its first command, the logs recorded so far are exactly the logs of
\* all its predecessors, in order, each of them ok or skipped; the step has
\* issued no command before (no step runs twice), no rollback or cleanup
\* command has been issued yet, and the commands issued together belong to
\* that one step (no two steps overlap).
C27_StepsInStrictOrder ==
    [][(upd'.n = upd.n /\ Len(upd'.cmds) > Len(upd.cmds)) =>
          LET old == Len(upd.cmds)
              s == StepOf(upd'.cmds[old + 1])
          IN  s # "" =>
                 \E p \in 1..5 :
                    /\ <<"git_pull", "docker_build", "backup_container",
                          "docker_run", "health_check">>[p] = s
                    /\ Len(upd.logs) = p - 1
                    /\ \A i \in 1..(p - 1) :
                          /\ upd.logs[i].step = <<"git_pull", "docker_build",
                                                   "backup_container", "docker_run">>[i]
                          /\ upd.logs[i].ok \/ upd.logs[i].skipped
                    /\ SubSeq(upd'.cmds, 1, old) = upd.cmds
                    /\ \A i \in 1..old : StepOf(upd.cmds[i]) \notin {s, ""}
                    /\ \A i \in (old + 1)..Len(upd'.cmds) : StepOf(upd'.cmds[i]) = s
                    /\ \A i, j \in (old + 1)..Len(upd'.cmds) :
                          upd'.cmds[i].cmd = upd'.cmds[j].cmd => i = j]_vars

\* witness: all five steps have run in order, the backup having been skipped
C27_Witness ==
    /\ LoggedSteps(upd.logs) = UpdateSteps
    /\ upd.logs[3].skipped
    /\ upd.logs[5].ok
    /\ [i \in 1..Len(upd.cmds) |-> upd.cmds[i].cmd]
          = <<"git_pull", "docker_build", "inspect", "docker_run", "health_check">>

-----------------------------------------------------------------------------
(* Claims about the Backup step.                                               *)

\* the outcome of a command of the current run ("" when it was not issued)
OutcomeOf(name) ==
    IF \E i \in 1..Len(upd.cmds) : upd.cmds[i].cmd = name
    THEN (CHOOSE c \in {upd.cmds[i] : i \in 1..Len(upd.cmds)} : c.cmd = name).outcome
    ELSE ""

\* the Backup step of the current run is over
BackupOver == OutcomeOf("inspect") # "" /\ upd.st # "backup_container"

\* the Run step is next or has been attempted
ProceedsToRun == upd.st = "docker_run" \/ OutcomeOf("docker_run") # ""

\* C28: after the Backup step, (a) if no container with the target name
\* existed, no rename was issued, the step's log is ok = true, skipped = true
\* and the pipeline proceeds to Run; (b) if the container existed, the rename
\* to "<container>-backup-<operation_id>" was issued, and when it succeeded the
\* container is found under that name before Run; (c) if that rename failed,
\* the step's log is ok = false, skipped = false, the container keeps its
\* name and no Run is attempted.
C28_BackupStep ==
    BackupOver =>
       IF ~Exists(upd.before, upd.container_name)
       THEN /\ OutcomeOf("rename_backup") = ""
            /\ Len(upd.logs) >= 3
            /\ upd.logs[3] = [step |-> "backup_container", ok |-> TRUE, skipped |-> TRUE]
            /\ ProceedsToRun
       ELSE /\ OutcomeOf("rename_backup") # ""
            /\ (OutcomeOf("rename_backup") = "ok" /\ upd.st = "docker_run") =>
                   /\ Exists(docker, upd.container_name \o "-backup-" \o upd.operation_id)
                   /\ ~Exists(docker, upd.container_name)
            /\ OutcomeOf("rename_backup") # "ok" =>
                   /\ Len(upd.logs) = 3
                   /\ upd.logs[3] = [step |-> "backup_container", ok |-> FALSE, skipped |-> FALSE]
                   /\ Exists(docker, upd.container_name)
                   /\ OutcomeOf("docker_run") = ""

-----------------------------------------------------------------------------
(* Claims about rollback().                                                    *)

\* the commands rollback() has issued in the current run, in order
RollbackCmds ==
    SelectSeq(upd.cmds, LAMBDA c : c.cmd \in {"rm_new", "rename_restore", "start"})

\* C29: a rollback issues docker rm -f of the target name, then docker rename
\* of the backup name to the target name, then docker start of the target,
\* each at most once; the start is issued exactly when the rename succeeded;
\* the result reports restored exactly when the rename and the start both
\* succeeded, and always reports attempted.
C29_RollbackSubSteps ==
    (Returned_(upd) /\ RollbackCmds # << >>) =>
        /\ [i \in 1..Len(RollbackCmds) |-> RollbackCmds[i].cmd]
              \in {<<"rm_new", "rename_restore">>, <<"rm_new", "rename_restore", "start">>}
        /\ Len(RollbackCmds) = 3 <=> RollbackCmds[2].outcome = "ok"
        /\ upd.result = "ok"
        /\ upd.response[1].rollback.attempted
        /\ upd.response[1].rollback.restored
              <=> (Len(RollbackCmds) = 3 /\ RollbackCmds[2].outcome = "ok"
                                         /\ RollbackCmds[3].outcome = "ok")

\* witness: a rollback whose rename succeeded and whose start failed
C29_Witness ==
    /\ Returned_(upd)
    /\ Len(RollbackCmds) = 3
    /\ RollbackCmds[2] = [cmd |-> "rename_restore", outcome |-> "ok"]
    /\ RollbackCmds[3] = [cmd |-> "start", outcome |-> "fail"]
    /\ ~upd.response[1].rollback.restored

\* the sub-steps of the current run's rollback that failed (non-zero exit
\* status or not launched)
FailedSubSteps == {i \in 1..Len(RollbackCmds) : RollbackCmds[i].outcome # "ok"}

\* the failure a sub-step would be reported with
FailureOf(c) ==
    CASE c.cmd = "rm_new" -> "remove"
      [] c.cmd = "rename_restore" -> "rename"
      [] c.cmd = "start" -> "start"

\* C30: a rollback in which some sub-step failed (the force-remove, the
\* rename back or the start) reports attempted = true, restored = false and
\* the failure of the first sub-step that failed as its error; a rollback in
\* which no sub-step failed reports restored = true and no error.
C30_FirstFailureReported ==
    (Returned_(upd) /\ RollbackCmds # << >>) =>
        LET r == upd.response[1].rollback
        IN  IF FailedSubSteps = {}
            THEN r.restored /\ r.error = << >>
            ELSE LET first == CHOOSE i \in FailedSubSteps : \A j \in FailedSubSteps : i <= j
                 IN  /\ r.attempted
                     /\ ~r.restored
                     /\ r.error = <<FailureOf(RollbackCmds[first])>>

-----------------------------------------------------------------------------
(* Claims about cleanup_backup().                                              *)

\* the names of the commands in a command list
CmdNames(cmds) == {cmds[i].cmd : i \in 1..Len(cmds)}

\* the commands of a command list, as a set
Issued(cmds) == {cmds[i] : i \in 1..Len(cmds)}

RollbackNames == {"rm_new", "rename_restore", "start"}

\* C31: cleanup_backup is invoked only when the Run step and the HealthCheck
\* step of the run both succeeded and the health-check log is already
\* recorded; no run invokes both rollback() and cleanup_backup(), and no
\* rollback command is issued once cleanup_backup() was invoked.
C31_CleanupOnlyAfterSuccess ==
    [][upd'.n = upd.n =>
          /\ ("rm_backup" \in CmdNames(upd'.cmds) /\ "rm_backup" \notin CmdNames(upd.cmds)) =>
                /\ [cmd |-> "docker_run", outcome |-> "ok"] \in Issued(upd.cmds)
                /\ [cmd |-> "health_check", outcome |-> "ok"] \in Issued(upd.cmds)
                /\ Len(upd.logs) = 5
                /\ upd.logs[4] = [step |-> "docker_run", ok |-> TRUE, skipped |-> FALSE]
                /\ upd.logs[5] = [step |-> "health_check", ok |-> TRUE, skipped |-> FALSE]
                /\ CmdNames(upd'.cmds) \cap RollbackNames = {}
          /\ "rm_backup" \in CmdNames(upd.cmds) =>
                /\ upd'.cmds = upd.cmds
                /\ CmdNames(upd.cmds) \cap RollbackNames = {}]_vars

\* witness: a run that ended with cleanup_backup() after a healthy start
C31_Witness ==
    /\ Returned_(upd)
    /\ Len(upd.cmds) > 0
    /\ upd.cmds[Len(upd.cmds)].cmd = "rm_backup"
    /\ upd.logs[5] = [step |-> "health_check", ok |-> TRUE, skipped |-> FALSE]

-----------------------------------------------------------------------------
(* Claims about the target container name.                                     *)

\* the positions of a "--name" token that has a successor
NamePairs(run_args) == {i \in 1..(Len(run_args) - 1) : run_args[i] = "--name"}

\* the token after the first such position, "" when there is none
ClaimedTarget(run_args) ==
    IF NamePairs(run_args) = {} THEN ""
    ELSE run_args[(CHOOSE i \in NamePairs(run_args) : \A j \in NamePairs(run_args) : i <= j) + 1]

\* C32: in every operation the target container name is the token that
\* follows the first "--name" token of run_args that has a successor, and the
\* empty string when there is no such pair ("--name" last, "--name=value", no
\* name at all); Backup, HealthCheck and Rollback all act on that one name,
\* and the backup name is built from it.
C32_TargetNameFromRunArgs ==
    upd.st # "idle" =>
        /\ upd.container_name = ClaimedTarget(upd.run_args)
        /\ upd.backup_name = ClaimedTarget(upd.run_args) \o "-backup-" \o upd.operation_id
        /\ \A i \in 1..Len(upd.targets) :
              /\ upd.targets[i].by \in {"backup", "health_check", "rollback"}
              /\ upd.targets[i].name = ClaimedTarget(upd.run_args)

\* witness: a run with a name pair in which all three components acted
C32_Witness ==
    /\ Returned_(upd)
    /\ upd.run_args = <<"--name", "web", "-d">>
    /\ {upd.targets[i].by : i \in 1..Len(upd.targets)} = {"backup", "health_check", "rollback"}
    /\ upd.container_name = "web"

\* witness: a run whose name is given as "--name=value", with the empty target
C32_WitnessEmpty ==
    /\ Returned_(upd)
    /\ upd.run_args = <<"-d", "--name=web">>
    /\ upd.container_name = ""
    /\ Len(upd.targets) = 3

-----------------------------------------------------------------------------
(* Claims about the machine codes of errors.                                   *)

SevenCodes ==
    {"VERSION_INVALID_INPUT", "VERSION_SOURCE_TIMEOUT", "VERSION_SOURCE_UNAVAILABLE",
     "VERSION_NO_VALID_SOURCE_RESULT", "VERSION_UPDATE_CONFLICT", "VERSION_STEP_FAILED",
     "VERSION_ROLLBACK_FAILED"}

\* the code each error is claimed to map to
ClaimedCode ==
    [InvalidInput |-> "VERSION_INVALID_INPUT", SourceTimeout |-> "VERSION_SOURCE_TIMEOUT",
     SourceUnavailable |-> "VERSION_SOURCE_UNAVAILABLE",
     NoValidSourceResult |-> "VERSION_NO_VALID_SOURCE_RESULT",
     UpdateConflict |-> "VERSION_UPDATE_CONFLICT", StepFailed |-> "VERSION_STEP_FAILED",
     RollbackFailed |-> "VERSION_ROLLBACK_FAILED", Io |-> "VERSION_SOURCE_UNAVAILABLE",
     Http |-> "VERSION_SOURCE_UNAVAILABLE", Parse |-> "VERSION_SOURCE_UNAVAILABLE"]

\* C33: each of the ten errors maps to one of the seven machine codes, Io,
\* Http and Parse to the code of SourceUnavailable; in every check that yields
\* its results, a failed result carries one of the seven codes: the code of
\* the error its provider returned when the provider returned within the
\* per-source timeout, and the SourceTimeout code when the source was cut off
\* by that timeout.
C33_ErrorCodes ==
    /\ \A e \in DOMAIN ClaimedCode : as_str(code(e)) = ClaimedCode[e]
    /\ outcome.results # << >> =>
          \A i \in 1..Len(outcome.results) :
             LET res == outcome.results[i]
                 run == outcome.runs[i]
             IN  /\ ~res.ok => Len(res.error_code) = 1 /\ res.error_code[1] \in SevenCodes
                 /\ (run.outcome # "ok" /\ run.latency < outcome.source_timeout)
                       => res.error_code = <<ClaimedCode[run.outcome]>> /\ ~res.ok
                 /\ (res.source # "LocalGit" /\ run.latency > outcome.source_timeout)
                       => res.error_code = <<"VERSION_SOURCE_TIMEOUT">> /\ ~res.ok

\* witness: a check whose git source failed with an Io error and whose custom
\* API source was cut off by the per-source timeout
C33_Witness ==
    /\ outcome.sources = <<"LocalGit", "CustomApi">>
    /\ Len(outcome.results) = 2
    /\ outcome.runs[1].outcome = "Io"
    /\ outcome.results[1].error_code = <<"VERSION_SOURCE_UNAVAILABLE">>
    /\ outcome.runs[2].latency = 20000
    /\ outcome.results[2].error_code = <<"VERSION_SOURCE_TIMEOUT">>

-----------------------------------------------------------------------------
(* Claims about the custom API provider.                                       *)

ClaimedSchemeOk(endpoint) ==
    \/ Len(endpoint) >= 7 /\ SubSeq(endpoint, 1, 7) = "http://"
    \/ Len(endpoint) >= 8 /\ SubSeq(endpoint, 1, 8) = "https://"

\* the spellings of GET and POST, in any case
ClaimedMethodOk(method) ==
    method \in {"GET", "get", "Get", "POST", "post", "Post"}

\* the alphanumerics, the dash and the underscore
ClaimedKeyChars ==
    {"a", "b", "d", "e", "i", "k", "n", "o", "t", "x", "y", "X", "T", "0", "1", "2", "-", "_"}

ClaimedBadKey(key) == \E i \in 1..Len(key) : SubSeq(key, i, i) \notin ClaimedKeyChars

RejectedConfig(config) ==
    \/ ~ClaimedSchemeOk(config.endpoint)
    \/ ~ClaimedMethodOk(config.method)
    \/ \E i \in 1..Len(config.headers) : ClaimedBadKey(config.headers[i])

\* the request succeeded and its body is a JSON object
ObjectReceived ==
    api.sent /\ api.reply # << >> /\ api.reply[1].kind = "body" /\ api.reply[1].json.kind = "object"

\* the value claimed for an optional field of the candidate
ClaimedOptional(field) ==
    IF field # << >> /\ field[1] \in DOMAIN api.reply[1].json.fields
    THEN <<api.reply[1].json.fields[field[1]].v>>
    ELSE << >>

\* what C34 says of a request that was answered with a JSON object
AnsweredAsClaimed ==
    /\ (ObjectReceived /\ "version" \notin DOMAIN api.reply[1].json.fields)
          => api.result = "Parse"
    /\ (ObjectReceived /\ "version" \in DOMAIN api.reply[1].json.fields
           /\ api.reply[1].json.fields["version"].kind = "string") =>
          /\ api.result = "ok"
          /\ api.candidate[1].release_notes = ClaimedOptional(api.config[1].notes_field)
          /\ api.candidate[1].published_at = ClaimedOptional(api.config[1].published_at_field)

\* C34 as stated: a fetch whose endpoint does not start with http:// or
\* https://, whose method is not GET or POST in any case, or one of whose
\* header keys holds a character other than alphanumerics, dash and
\* underscore, fails with InvalidInput and sends no request; a JSON object
\* without the version field gives a Parse failure, and a missing notes or
\* published-at field gives an ok candidate with that value absent.
C34_Original ==
    api.st = "done" =>
        /\ RejectedConfig(api.config[1]) => api.result = "InvalidInput" /\ ~api.sent
        /\ AnsweredAsClaimed

\* C34, corrected: as above, but a bad method or header key is reported as
\* InvalidInput only when the HTTP client could be built: the client is built
\* after the endpoint check and before the method and the headers are looked
\* at, and when that fails the fetch fails with Http (no request is sent
\* either).
C34_InvalidConfigRejected ==
    api.st = "done" =>
        /\ RejectedConfig(api.config[1]) =>
              /\ ~api.sent
              /\ api.result = IF ClaimedSchemeOk(api.config[1].endpoint) /\ ~api.client_ok
                               THEN "Http" ELSE "InvalidInput"
        /\ AnsweredAsClaimed

\* witness: a fetch with a valid endpoint and method whose second header key
\* holds a colon was rejected before anything was sent
C34_Witness ==
    /\ api.st = "done"
    /\ api.config[1].endpoint = "https://api.example/v"
    /\ api.config[1].method = "get"
    /\ api.config[1].headers = <<"X-Token", "a:b">>
    /\ api.client_ok
    /\ api.result = "InvalidInput"
    /\ ~api.sent

\* witness: a candidate without notes from an object that has no notes field
C34_WitnessOptional ==
    /\ api.st = "done"
    /\ api.result = "ok"
    /\ api.config[1].notes_field = <<"notes">>
    /\ "notes" \notin DOMAIN api.reply[1].json.fields
    /\ api.candidate[1].release_notes = << >>

-----------------------------------------------------------------------------
(* Claims about what a cached entry answers.                                   *)

\* requests that differ in their source list (the empty list included) and in
\* their timeout overrides
AnySources == {<< >>, <<"LocalGit">>, <<"DockerHub", "LocalGit">>, <<"CustomApi", "GithubRelease">>}

AnyTimeouts == {<< << >>, << >> >>, << << >>, <<5000>> >>, << <<500>>, << >> >>}

\* C35: while the cache holds an entry of age <= 30 s for an image key, every
\* check_image_version request for that repository and tag, whatever its
\* source list (the empty list included) and whatever its timeout overrides,
\* can only return that entry: it is not rejected with InvalidInput, it
\* starts no source, and it returns no other response.
C35_CachedEntryAnswersEveryRequest ==
    \A image \in Images, sources \in AnySources, to \in AnyTimeouts :
        LET k == image.repository \o ":" \o image.tag
        IN  (chk.st = "idle" /\ k \in DOMAIN check_cache
                             /\ now - check_cache[k].cached_at <= 30000) =>
               /\ ENABLED (/\ CheckCacheHit(image, sources, to[1], to[2])
                           /\ outcome'.kind = "hit"
                           /\ outcome'.response = <<check_cache[k].response>>
                           /\ outcome'.sources = sources)
               /\ ~ENABLED (/\ CheckCacheHit(image, sources, to[1], to[2])
                            /\ outcome'.response # <<check_cache[k].response>>)
               /\ ~ENABLED CheckRejectEmpty(image, sources, to[1], to[2])
               /\ ~ENABLED (\E runs \in RunLists(sources) :
                               CheckFanOut(image, sources, runs, to[1], to[2]))

\* witness: the entry of a two-source check was returned to a request with an
\* empty source list
C35_Witness ==
    /\ outcome.kind = "hit"
    /\ outcome.sources = << >>
    /\ outcome.image_key \in DOMAIN check_cache
    /\ outcome.response = <<check_cache[outcome.image_key].response>>
    /\ Len(outcome.response[1].results) = 2

-----------------------------------------------------------------------------
(* Claims about the response of an update that was rolled back.               *)

\* C36: no UpdateResponse reports success = true together with
\* rollback.attempted = true: whenever rollback() was invoked, after a Run or
\* a HealthCheck step that failed in any way (non-zero exit status or command
\* not launched), the response has success = false and no final_image_ref.
C36_NoSuccessWithRollback ==
    (Returned_(upd) /\ upd.result = "ok") =>
        LET r == upd.response[1]
        IN  /\ ~(r.success /\ r.rollback.attempted)
            /\ RollbackCmds # << >> => ~r.success /\ r.final_image_ref = << >>

\* the containers on the host that the current operation's docker run created
Replacements == {n \in DOMAIN docker : docker[n].created_by = upd.operation_id}

\* C37: after a rollback that a failed HealthCheck triggered and whose
\* force-remove command succeeded, the container that the Run step started is
\* no longer on the host, for every run_args list, lists without a
\* "--name <value>" pair included.
C37_ReplacementRemovedByRollback ==
    (/\ Returned_(upd)
     /\ [cmd |-> "health_check", outcome |-> "fail"] \in Issued(upd.cmds)
     /\ [cmd |-> "rm_new", outcome |-> "ok"] \in Issued(upd.cmds)) =>
        Replacements = {}

-----------------------------------------------------------------------------
(* Claims about the host after a rollback that restored the backup.            *)

\* C38: when an update whose Backup step renamed an existing container ends
\* with rollback.restored = true, the containers of the host are those from
\* before the update, the original one running under its original name: no
\* container carries the backup name and the failed replacement is gone.
C38_RestoredHostEqualsBefore ==
    (/\ Returned_(upd)
     /\ upd.result = "ok"
     /\ [cmd |-> "rename_backup", outcome |-> "ok"] \in Issued(upd.cmds)
     /\ upd.response[1].rollback.restored) =>
        /\ upd.container_name \in DOMAIN docker
        /\ docker[upd.container_name].status = "running"
        /\ (upd.container_name \o "-backup-" \o upd.operation_id) \notin DOMAIN docker
        /\ DOMAIN docker = DOMAIN upd.before
        /\ \A n \in DOMAIN docker :
              /\ docker[n].created_by = upd.before[n].created_by
              /\ n # upd.container_name => docker[n] = upd.before[n]

-----------------------------------------------------------------------------
(* Claims about the recommendation of a freshly computed response *)

\* C39: every freshly computed CheckResponse that check_image_version returns
\* carries a recommendation, and it is the latest candidate of one of the
\* response's ok results whose source kind ranks highest, in the order
\* LocalGit, GithubRelease, DockerHub, CustomApi, among the ok results; a
\* completed fan-out never yields a response without a recommendation.
C39_FreshResponseRecommends ==
    outcome.kind = "fresh" =>
        LET r == outcome.response[1]
        IN  /\ r.recommended # << >>
            /\ OkIndices(r.results) # {}
            /\ FirstOkInPriorityOrder(r.results, r.recommended)

\* C39 witness: LocalGit failed and CustomApi answered; the fresh response
\* recommends CustomApi's candidate
C39_Witness ==
    /\ outcome.kind = "fresh"
    /\ Len(outcome.response[1].results) = 2
    /\ outcome.response[1].results[1].source = "LocalGit"
    /\ ~outcome.response[1].results[1].ok
    /\ outcome.response[1].results[2].ok
    /\ outcome.response[1].recommended = <<[source |-> "CustomApi", version |-> "1.0.0"]>>

\* C39 witness: both sources answered; the fresh response recommends
\* LocalGit's candidate although CustomApi's result is ok as well
C39_WitnessBothOk ==
    /\ outcome.kind = "fresh"
    /\ Len(outcome.response[1].results) = 2
    /\ outcome.response[1].results[1].ok
    /\ outcome.response[1].results[2].ok
    /\ outcome.response[1].results[2].source = "CustomApi"
    /\ outcome.response[1].recommended = <<[source |-> "LocalGit", version |-> "1.1.0"]>>

-----------------------------------------------------------------------------
(* Claims about the first poll of wait_until_healthy *)

\* the call returned the "did not become healthy" failure
HealthTimedOut ==
    /\ hc.st = "done"
    /\ hc.result = "StepFailed"
    /\ (Len(hc.seen) = 0 \/ LastSeen = "created")

\* C40: wait_until_healthy polls the container status at least once before it
\* reports a timeout, for every health_check_ms (also below 1000 ms, which
\* becomes a maximum wait of 0 s); a container that is running at the first
\* poll is reported healthy.
C40_PollsBeforeTimeout ==
    /\ HealthTimedOut => Len(hc.seen) >= 1
    /\ (hc.st = "done" /\ Len(hc.seen) >= 1 /\ hc.seen[1] = "running") => hc.result = "ok"

====
